---- MODULE Spec2Model ----
(***************************************************************************)
(* A model of the HST/COS spectral data model of sunburn / blastoise:      *)
(* the numerical helpers of tools.py (nearest_index, pick_side), the       *)
(* COSSpectrum container (construction, compute_proper_error,              *)
(* time_tag_split, assign_splits) and the Visit that aggregates spectra.   *)
(*                                                                         *)
(* Conventions.  Floating point numbers are modelled as exact rationals    *)
(* [num, den]; a zero denominator stands for numpy's non-finite results    *)
(* (inf when num # 0, nan when num = 0).  Count rates (NET, shift_net) are *)
(* measured in units of 1e-7 counts/s, so the default shift_net is 1.      *)
(* Julian Dates are in days, exposure times in seconds.  Indices are       *)
(* 0-based as in the source; a numpy array a is a TLA+ sequence whose      *)
(* element a[i] is At(a, i).                                               *)
(***************************************************************************)
EXTENDS Integers, Sequences, FiniteSets

VARIABLES
    ni,        \* the last nearest_index call: its array, target and result
    ps,        \* the last pick_side call: its sides, range and outcome
    splitdir,  \* the split output directory: per dataset, how many split
               \* files root_<i>_x1d.fits the pipeline left there
    visit,     \* the sunburn Visit object (instrument, orbit dictionary)
    ret,       \* the outcome of the last method call on the visit
    cos,       \* a stand-alone sunburn COSSpectrum and the last call on it
    bcos,      \* a stand-alone blastoise COSSpectrum
    velocity_range  \* the array object a caller passes as velocity_range

vars == <<ni, ps, splitdir, visit, ret, cos, bcos, velocity_range>>

toolVars == <<ni, ps>>
visitVars == <<splitdir, visit, ret>>
errVars == <<cos, bcos>>
callerVars == <<velocity_range>>

----------------------------------------------------------------------------
(* Bounds of the model *)

\* longest array handed to nearest_index
MaxLen == 3
\* array elements and targets of nearest_index range over 0..MaxVal
MaxVal == 5
\* pixels per detector side in an x1d file
NFilePix == 6
\* largest n_splits handed to COSSpectrum.time_tag_split, and the most
\* split files of one dataset a directory holds for a stand-alone spectrum
MaxSplits == 3
\* the same for Visit.time_tag_split and the directory a visit reads
MaxVisitSplits == 2
\* largest shift_net handed to compute_proper_error (units of 1e-7)
MaxShift == 2

----------------------------------------------------------------------------
(* Generic helpers: python sequences *)

\* a[i] of a numpy array / python list, 0-based, negative i counted from the end
At(a, i) == IF i >= 0 THEN a[i + 1] ELSE a[Len(a) + i + 1]

\* the start or stop of a python slice, clamped as python clamps it
SliceBound(n, i) ==
    IF i < 0 THEN (IF n + i < 0 THEN 0 ELSE n + i)
    ELSE (IF i > n THEN n ELSE i)

\* a[i:j]
Slice(a, i, j) ==
    LET lo == SliceBound(Len(a), i)
        hi == SliceBound(Len(a), j)
    IN  IF hi <= lo THEN <<>> ELSE SubSeq(a, lo + 1, hi)

SeqMin(a) == CHOOSE x \in {a[k] : k \in 1..Len(a)} :
                 \A k \in 1..Len(a) : x <= a[k]

SeqMax(a) == CHOOSE x \in {a[k] : k \in 1..Len(a)} :
                 \A k \in 1..Len(a) : x >= a[k]

IsSorted(a) == \A k \in 1..(Len(a) - 1) : a[k] <= a[k + 1]

Abs(x) == IF x < 0 THEN -x ELSE x

----------------------------------------------------------------------------
(* Exact rational arithmetic standing for the float arithmetic of numpy *)

RECURSIVE Gcd(_, _)
Gcd(a, b) == IF b = 0 THEN a ELSE Gcd(b, a % b)

\* the rational n/d in lowest terms, d > 0; d = 0 gives inf (n # 0) or nan
Rat(n, d) ==
    IF d = 0 THEN [num |-> IF n > 0 THEN 1 ELSE IF n < 0 THEN -1 ELSE 0, den |-> 0]
    ELSE LET g == Gcd(Abs(n), Abs(d))
             s == IF d < 0 THEN -1 ELSE 1
         IN  [num |-> s * (n \div g), den |-> s * (d \div g)]

R(n) == [num |-> n, den |-> 1]

IsFinite(x) == x.den # 0

NaN == [num |-> 0, den |-> 0]

RatAdd(x, y) ==
    IF ~IsFinite(x) \/ ~IsFinite(y)
    THEN (IF ~IsFinite(x) /\ ~IsFinite(y) /\ x.num # y.num THEN NaN
          ELSE IF ~IsFinite(x) THEN x ELSE y)
    ELSE LET g == Gcd(x.den, y.den)
         IN  Rat(x.num * (y.den \div g) + y.num * (x.den \div g),
                 (x.den \div g) * y.den)

RatNeg(x) == [num |-> -x.num, den |-> x.den]

RatSub(x, y) == RatAdd(x, RatNeg(y))

RatMul(x, y) ==
    IF ~IsFinite(x) \/ ~IsFinite(y)
    THEN Rat(x.num * y.num, 0)
    ELSE LET g1 == Gcd(Abs(x.num), y.den)
             g2 == Gcd(Abs(y.num), x.den)
         IN  Rat((x.num \div g1) * (y.num \div g2),
                 (x.den \div g2) * (y.den \div g1))

\* x / y as numpy divides floats: x/0 is inf or nan, never an exception
RatDiv(x, y) ==
    IF ~IsFinite(x) \/ ~IsFinite(y)
    THEN (IF IsFinite(y) THEN (IF y.num < 0 THEN RatNeg(x) ELSE x)
          ELSE IF IsFinite(x) THEN R(0) ELSE NaN)
    ELSE IF y.num = 0 THEN Rat(x.num, 0)
    ELSE RatMul(x, Rat(y.den, y.num))

\* x ** 0.5 on the perfect squares the model's gross counts produce
RECURSIVE SqrtFrom(_, _)
SqrtFrom(x, r) == IF (r + 1) * (r + 1) > x THEN r ELSE SqrtFrom(x, r + 1)

Sqrt(x) == SqrtFrom(x, 0)

----------------------------------------------------------------------------
(* tools.py *)

\* array.searchsorted(target_value): the leftmost insertion point in a
\* sorted array, i.e. the number of elements strictly below the target
SearchSorted(array, target_value) ==
    Cardinality({k \in 1..Len(array) : array[k] < target_value})

\* np.clip(x, lo, hi)
Clip(x, lo, hi) ==
    LET m == IF x < lo THEN lo ELSE x
    IN  IF m > hi THEN hi ELSE m

\* a plausible slip: `+=` for `-=` in the final adjustment
nearest_index_plus(array, target_value) ==
    LET index == Clip(SearchSorted(array, target_value), 1, Len(array) - 1)
        left  == At(array, index - 1)
        right == At(array, index)
    IN  IF target_value - left < right - target_value THEN index + 1 ELSE index

\* a plausible slip: `<=` for `<` in the final comparison
nearest_index_le(array, target_value) ==
    LET index == Clip(SearchSorted(array, target_value), 1, Len(array) - 1)
        left  == At(array, index - 1)
        right == At(array, index)
    IN  IF target_value - left <= right - target_value THEN index - 1 ELSE index

\* a plausible slip: the comparison with the neighbours left out
nearest_index_nocmp(array, target_value) ==
    Clip(SearchSorted(array, target_value), 1, Len(array) - 1)

nearest_index(array, target_value) ==
    LET index == Clip(SearchSorted(array, target_value), 1, Len(array) - 1)
        left  == At(array, index - 1)
        right == At(array, index)
    IN  IF target_value - left < right - target_value THEN index - 1 ELSE index

\* the outcome of a call: a returned index, or the ValueError raised
Returned(i) == [raised |-> FALSE, index |-> i]
RangeNotCovered == [raised |-> TRUE, index |-> -1]

\* a plausible slip: non-strict comparisons with the sides' bounds
pick_side_nonstrict(wavelength_array, wavelength_range) ==
    IF wavelength_range[1] >= SeqMin(wavelength_array[1])
       /\ wavelength_range[2] <= SeqMax(wavelength_array[1])
    THEN Returned(0)
    ELSE IF wavelength_range[1] >= SeqMin(wavelength_array[2])
            /\ wavelength_range[2] <= SeqMax(wavelength_array[2])
    THEN Returned(1)
    ELSE RangeNotCovered

\* a plausible slip: the second branch tests side 0 again
pick_side_side0(wavelength_array, wavelength_range) ==
    IF wavelength_range[1] > SeqMin(wavelength_array[1])
       /\ wavelength_range[2] < SeqMax(wavelength_array[1])
    THEN Returned(0)
    ELSE IF wavelength_range[1] > SeqMin(wavelength_array[2])
            /\ wavelength_range[2] < SeqMax(wavelength_array[1])
    THEN Returned(1)
    ELSE RangeNotCovered

pick_side(wavelength_array, wavelength_range) ==
    IF wavelength_range[1] > SeqMin(wavelength_array[1])
       /\ wavelength_range[2] < SeqMax(wavelength_array[1])
    THEN Returned(0)
    ELSE IF wavelength_range[1] > SeqMin(wavelength_array[2])
            /\ wavelength_range[2] < SeqMax(wavelength_array[2])
    THEN Returned(1)
    ELSE RangeNotCovered

----------------------------------------------------------------------------
(* The data files (FITS products read by UVSpectrum.__init__) *)

Datasets == {"ds1", "ds2"}

DsNum(d) == IF d = "ds1" THEN 1 ELSE 2

Sides == 1..2

SecondsPerDay == 86400

\* A dataset name: the parent 'root' (part = 0) or its split 'root_<part>'
Name(root, part) == [root |-> root, part |-> part]

\* The pixels of one detector side's column of an x1d table, 0-based
Pixels == 0..(NFilePix - 1)

\* A column from its pixel values: the sequence of g[0], ..., g[NFilePix-1]
Column(g) == [p \in 1..NFilePix |-> g[p - 1]]

\* The x1d + corrtag_a files of dataset d.  The columns hold small values in
\* which every case of the error formula occurs: FLUX in 0..2, NET in -1..1
\* (units of 1e-7 counts/s), GCOUNTS in {0, 3, 8}.  ds1's time window is as
\* long as its EXPTIME, ds2's is 100 s longer.
X1dFile(d) ==
    LET k == DsNum(d)
        Wl0 == [p \in Pixels |-> 1260 + 2 * p]
        Wl1 == [p \in Pixels |-> 1025 + 2 * p]
        Fl0 == [p \in Pixels |-> R((p + k) % 3)]
        Fl1 == [p \in Pixels |-> R((p + k + 1) % 3)]
        Er0 == [p \in Pixels |-> R(1 + (p % 2))]
        Er1 == [p \in Pixels |-> R(1 + ((p + 1) % 2))]
        Gc0 == [p \in Pixels |-> (((p + k) % 3) + 1) * (((p + k) % 3) + 1) - 1]
        Gc1 == [p \in Pixels |->
                   (((p + k + 1) % 3) + 1) * (((p + k + 1) % 3) + 1) - 1]
        Bg0 == [p \in Pixels |-> (p + k) % 2]
        Bg1 == [p \in Pixels |-> (p + k + 1) % 2]
        Nt0 == [p \in Pixels |-> ((p + 2 * k) % 3) - 1]
        Nt1 == [p \in Pixels |-> ((p + 2 * k + 1) % 3) - 1]
    IN  [WAVELENGTH |-> <<Column(Wl0), Column(Wl1)>>,
         FLUX       |-> <<Column(Fl0), Column(Fl1)>>,
         ERROR      |-> <<Column(Er0), Column(Er1)>>,
         GCOUNTS    |-> <<Column(Gc0), Column(Gc1)>>,
         BACKGROUND |-> <<Column(Bg0), Column(Bg1)>>,
         NET        |-> <<Column(Nt0), Column(Nt1)>>,
         EXPTIME    |-> <<R(1200), R(1200)>>,
         EXPSTRTJ   |-> R(2450000 + k),
         EXPENDJ    |-> RatAdd(R(2450000 + k),
                               Rat(1200 + 100 * (k - 1), SecondsPerDay))]

\* good_pixel_limits: None, or ((i00, i01), (i10, i11))
GplNone == <<>>

\* COSSpectrum's default ((1260, 15170), (1025, 15020)) of a 16384-pixel
\* detector, scaled to the model's short columns: the red side loses its
\* first and last pixels, the blue side only its last ones
DefaultGpl == <<<<1, 5>>, <<0, 5>>>>

GplChoices == {GplNone, DefaultGpl}

----------------------------------------------------------------------------
(* UVSpectrum / COSSpectrum construction *)

\* np.array([col[0][i00:i01], col[1][i10:i11]])
SliceSides(column, gpl) ==
    <<Slice(column[1], gpl[1][1], gpl[1][2]),
      Slice(column[2], gpl[2][1], gpl[2][2])>>

\* self.gpl after the `is None` test
EffectiveGpl(good_pixel_limits) ==
    IF good_pixel_limits = GplNone THEN <<<<0, -1>>, <<0, -1>>>>
    ELSE good_pixel_limits

\* sunburn UVSpectrum.__init__ followed by COSSpectrum.__init__, reading
\* the files f found at prefix + dataset_name
COSSpectrum(dataset_name, good_pixel_limits, f) ==
    LET gpl == EffectiveGpl(good_pixel_limits)
    IN  [dataset_name |-> dataset_name,
         gpl          |-> gpl,
         wavelength   |-> SliceSides(f.WAVELENGTH, gpl),
         flux         |-> SliceSides(f.FLUX, gpl),
         error        |-> SliceSides(f.ERROR, gpl),
         gross_counts |-> SliceSides(f.GCOUNTS, gpl),
         background   |-> SliceSides(f.BACKGROUND, gpl),
         net          |-> SliceSides(f.NET, gpl),
         exp_time     |-> f.EXPTIME[1],
         start_JD     |-> f.EXPSTRTJ,
         end_JD       |-> f.EXPENDJ,
         sensitivity  |-> <<>>,
         split_none   |-> TRUE,
         split        |-> <<>>,
         _systematics |-> <<>>]

\* blastoise UVSpectrum.__init__ followed by COSSpectrum.__init__
BlastoiseCOSSpectrum(dataset_name, good_pixel_limits, f) ==
    LET gpl == EffectiveGpl(good_pixel_limits)
    IN  [dataset_name |-> dataset_name,
         gpl          |-> gpl,
         wavelength   |-> SliceSides(f.WAVELENGTH, gpl),
         flux         |-> SliceSides(f.FLUX, gpl),
         error        |-> SliceSides(f.ERROR, gpl),
         gross_counts |-> SliceSides(f.GCOUNTS, gpl),
         background   |-> SliceSides(f.BACKGROUND, gpl),
         net          |-> SliceSides(f.NET, gpl),
         exp_time     |-> <<f.EXPTIME[1], f.EXPTIME[2]>>,
         start_JD     |-> f.EXPSTRTJ,
         end_JD       |-> f.EXPENDJ,
         sensitivity  |-> <<>>]

----------------------------------------------------------------------------
(* compute_proper_error *)

ShiftNetDefault == 1

\* self.flux / (self.net + shift_net) / self.exp_time
Sensitivity(self, shift_net) ==
    [s \in Sides |-> [p \in 1..Len(self.flux[s]) |->
        RatDiv(RatDiv(self.flux[s][p],
                      RatAdd(R(self.net[s][p]), R(shift_net))),
               self.exp_time)]]

\* (self.gross_counts + 1.0) ** 0.5 * self.sensitivity
ProperError(self, sensitivity) ==
    [s \in Sides |-> [p \in 1..Len(self.flux[s]) |->
        RatMul(R(Sqrt(self.gross_counts[s][p] + 1)), sensitivity[s][p])]]

\* a plausible slip: shift_net added to self.net in place
compute_proper_error_inplace(self, shift_net) ==
    LET sens == Sensitivity(self, shift_net)
    IN  [self EXCEPT !.sensitivity = sens,
                     !.error = ProperError(self, sens),
                     !.net = [s \in Sides |-> [p \in 1..Len(self.net[s]) |->
                                 self.net[s][p] + shift_net]]]

\* sunburn COSSpectrum.compute_proper_error(shift_net)
compute_proper_error(self, shift_net) ==
    LET sens == Sensitivity(self, shift_net)
    IN  [self EXCEPT !.sensitivity = sens,
                     !.error = ProperError(self, sens)]

\* The shape numpy gives np.array([side0, side1]): two sides of equal
\* length make a 2-d array, otherwise an array of two array objects
Is2d(self) == Len(self.flux[1]) = Len(self.flux[2])

\* blastoise: self.flux / self.net / self.exp_time with a per-side exp_time.
\* On an array of two array objects the division pairs side s with
\* exp_time[s]; on a 2-d array of shape (2, n) broadcasting pairs column p
\* with exp_time[p], which needs n = 2
BlastoiseBroadcasts(self) == ~Is2d(self) \/ Len(self.flux[1]) = 2

BlastoiseSensitivity(self) ==
    [s \in Sides |-> [p \in 1..Len(self.flux[s]) |->
        RatDiv(RatDiv(self.flux[s][p], R(self.net[s][p])),
               IF Is2d(self) THEN self.exp_time[p] ELSE self.exp_time[s])]]

\* blastoise COSSpectrum.compute_proper_error()
blastoise_compute_proper_error(self) ==
    LET sens == BlastoiseSensitivity(self)
    IN  [self EXCEPT !.sensitivity = sens,
                     !.error = ProperError(self, sens)]

----------------------------------------------------------------------------
(* The external time-tag splitting and extraction pipeline *)

\* The x1d/corrtag files the pipeline (splittag, x1dcorr, concatenateSegments)
\* leaves for sub-exposure i of n of the parent files f: the same column
\* layout, its own fluxes, a share of the exposure time, and the parent's
\* time window in the header, which is what the later correction of
\* start_JD and end_JD presupposes
SplitFile(f, n, i) ==
    [f EXCEPT !.FLUX = [s \in Sides |-> [p \in 1..NFilePix |->
                           R((f.FLUX[s][p].num + i) % 3)]],
              !.EXPTIME = <<RatDiv(f.EXPTIME[1], R(n)),
                            RatDiv(f.EXPTIME[2], R(n))>>]

\* out_dir after the pipeline split the parent files f in n: the files
\* root_1_x1d.fits .. root_n_x1d.fits (and their corrtag files)
RunPipeline(f, n) == [i \in 1..n |-> SplitFile(f, n, i)]

\* the split files of dataset d found in a directory that holds n of them
DirFiles(d, n) == RunPipeline(X1dFile(d), n)

\* The orders in which glob.glob can list n files: glob returns the
\* directory's entries in arbitrary order
Orders == [n \in 0..MaxSplits |->
              {o \in [1..n -> 1..n] : \A a, b \in 1..n : o[a] = o[b] => a = b}]

Perms(n) == Orders[n]

AllOrders == UNION {Orders[n] : n \in 0..MaxSplits}

----------------------------------------------------------------------------
(* COSSpectrum.time_tag_split and COSSpectrum.assign_splits *)

\* ((self.exp_time / n_splits) * u.s).to(u.d)
TimeStep(self, n_splits) ==
    RatDiv(RatDiv(self.exp_time, R(n_splits)), R(SecondsPerDay))

\* split_obs.start_JD += i * time_step
\* split_obs.end_JD -= time_step * (n_splits - i - 1)
Stamp(split_obs, time_step, n_splits, i) ==
    [split_obs EXCEPT
        !.start_JD = RatAdd(split_obs.start_JD, RatMul(R(i), time_step)),
        !.end_JD = RatSub(split_obs.end_JD,
                          RatMul(time_step, R(n_splits - i - 1)))]

\* a plausible slip: `self.split = []` left out, the new splits appended
\* to the ones the spectrum has
time_tag_split_appending(self, n_splits, outfiles) ==
    [self EXCEPT
        !.split_none = FALSE,
        !.split = self.split \o [k \in 1..n_splits |->
            Stamp(COSSpectrum(Name(self.dataset_name.root, k), DefaultGpl,
                              outfiles[k]),
                  TimeStep(self, n_splits), n_splits, k - 1)]]

\* The tail of time_tag_split (auto_extract): self.split rebuilt from the
\* n_splits files the pipeline left in out_dir
time_tag_split(self, n_splits, outfiles) ==
    [self EXCEPT
        !.split_none = FALSE,
        !.split = [k \in 1..n_splits |->
            Stamp(COSSpectrum(Name(self.dataset_name.root, k), DefaultGpl,
                              outfiles[k]),
                  TimeStep(self, n_splits), n_splits, k - 1)]]

\* assign_splits(path): split_list is glob's listing of the directory, in
\* the order glob returned it; position i is built from the file listed i-th
assign_splits(self, dirfiles, split_list) ==
    LET n_splits == Len(split_list)
    IN  [self EXCEPT
            !.split_none = FALSE,
            !.split = [k \in 1..n_splits |->
                Stamp(COSSpectrum(Name(self.dataset_name.root, split_list[k]),
                                  DefaultGpl, dirfiles[split_list[k]]),
                      TimeStep(self, n_splits), n_splits, k - 1)]]

\* a plausible slip: the loop over the splits left out
ErrorsOnSplits_skipped(self) == self

\* for i in range(n_splits):
\*     self.orbit[dataset].split[i].compute_proper_error()
ErrorsOnSplits(self) ==
    [self EXCEPT !.split = [k \in 1..Len(self.split) |->
        compute_proper_error(self.split[k], ShiftNetDefault)]]

----------------------------------------------------------------------------
(* The sunburn Visit *)

Instruments == {"cos", "stis", "wfc3"}

NoVisit == [exists |-> FALSE, instrument |-> "", orbit |-> <<>>]

\* what a call did: the method, the exception it raised ("" when it
\* returned) and the n_splits it was given
Outcome(op, raised, n_splits) ==
    [op |-> op, raised |-> raised, n_splits |-> n_splits]

\* a plausible slip: the instrument test left out
SupportsSplitting_any(instrument) == TRUE

\* the test `self.instrument != 'cos'` that opens both splitting methods
SupportsSplitting(instrument) == instrument = "cos"

\* Visit.__init__(dataset_name, instrument, good_pixel_limits,
\*                compute_proper_error)
VisitNew(dataset_name, instrument, good_pixel_limits, cpe) ==
    /\ ~visit.exists
    /\ IF instrument = "stis" /\ dataset_name # {}
       THEN /\ ret' = Outcome("Visit", "NotImplementedError", 0)
            /\ UNCHANGED visit
       ELSE /\ visit' =
                [exists |-> TRUE,
                 instrument |-> instrument,
                 orbit |->
                    [d \in (IF instrument = "cos" THEN dataset_name ELSE {}) |->
                        LET obs == COSSpectrum(Name(d, 0), good_pixel_limits,
                                               X1dFile(d))
                        IN  IF cpe
                            THEN compute_proper_error(obs, ShiftNetDefault)
                            ELSE obs]]
            /\ ret' = Outcome("Visit", "", 0)
    /\ UNCHANGED <<splitdir, toolVars, errVars, callerVars>>

\* Visit.time_tag_split(n_splits, path_calibration_files, out_dir)
VisitTimeTagSplit(n_splits) ==
    /\ visit.exists
    /\ IF ~SupportsSplitting(visit.instrument)
       THEN /\ ret' = Outcome("Visit.time_tag_split", "ValueError", n_splits)
            /\ UNCHANGED <<visit, splitdir>>
       ELSE /\ splitdir' = [d \in Datasets |->
                               IF d \in DOMAIN visit.orbit THEN n_splits
                               ELSE splitdir[d]]
            /\ visit' = [visit EXCEPT !.orbit = [d \in DOMAIN visit.orbit |->
                            ErrorsOnSplits(
                                time_tag_split(visit.orbit[d], n_splits,
                                               DirFiles(d, n_splits)))]]
            /\ ret' = Outcome("Visit.time_tag_split", "", n_splits)
    /\ UNCHANGED <<toolVars, errVars, callerVars>>

\* Visit.assign_splits(path); listing[d] is what glob returns for dataset d
VisitAssignSplits(listing) ==
    /\ visit.exists
    /\ IF ~SupportsSplitting(visit.instrument)
       THEN /\ ret' = Outcome("Visit.assign_splits", "ValueError", 0)
            /\ UNCHANGED visit
       ELSE /\ visit' = [visit EXCEPT !.orbit = [d \in DOMAIN visit.orbit |->
                            ErrorsOnSplits(
                                assign_splits(visit.orbit[d],
                                              DirFiles(d, splitdir[d]),
                                              listing[d]))]]
            /\ ret' = Outcome("Visit.assign_splits", "", 0)
    /\ UNCHANGED <<splitdir, toolVars, errVars, callerVars>>

\* the caller: visit.orbit[d].compute_proper_error(shift_net)
VisitOrbitComputeProperError(d, shift_net) ==
    /\ visit.exists
    /\ d \in DOMAIN visit.orbit
    /\ visit' = [visit EXCEPT !.orbit[d] =
                     compute_proper_error(visit.orbit[d], shift_net)]
    /\ ret' = Outcome("orbit.compute_proper_error", "", 0)
    /\ UNCHANGED <<splitdir, toolVars, errVars, callerVars>>

\* the listings glob can return for the datasets in ds
Listings(ds) ==
    {l \in [ds -> AllOrders] :
        \A d \in ds : l[d] \in Perms(splitdir[d])}

----------------------------------------------------------------------------
(* CombinedSpectra.__init__ *)

\* a + b and a ** 2 of two-sided arrays, element by element
AddSides(a, b) ==
    [s \in Sides |-> [p \in 1..Len(a[s]) |-> RatAdd(a[s][p], b[s][p])]]

SquareSides(a) ==
    [s \in Sides |-> [p \in 1..Len(a[s]) |-> RatMul(a[s][p], a[s][p])]]

\* self.flux = 0: the attribute is bound to an int, not to an array
IntZero == [is_int |-> TRUE, value |-> <<>>, owner |-> ""]

\* a plausible slip: the sum starts as the first array itself, and the later
\* in-place operations act on the array of that orbit
Iadd_alias(acc, x, owner) ==
    IF acc.is_int
    THEN [is_int |-> FALSE, value |-> x, owner |-> owner]
    ELSE [acc EXCEPT !.value = AddSides(acc.value, x)]

\* python's `acc += x` for an array x owned by `owner` ("" for a temporary):
\* an int has no in-place addition, so `0 + x` binds acc to a new array;
\* on an array numpy adds in place, in the array acc is bound to
Iadd(acc, x, owner) ==
    IF acc.is_int
    THEN [is_int |-> FALSE, value |-> x, owner |-> ""]
    ELSE [acc EXCEPT !.value = AddSides(acc.value, x)]

RECURSIVE IaddAll(_, _, _)
\* the loop `for o in visit.orbit: acc += xs[o]`
IaddAll(acc, xs, owners) ==
    IF xs = <<>> THEN acc
    ELSE IaddAll(Iadd(acc, Head(xs), Head(owners)), Tail(xs), Tail(owners))

\* CombinedSpectra(visit), `order` being the order in which the dict
\* visit.orbit is iterated: the new object, and the orbits of the visit as
\* the in-place operations leave them
CombinedSpectra(orbit, order) ==
    LET n_orbit == Len(order)
        flux    == IaddAll(IntZero,
                           [i \in 1..n_orbit |-> orbit[order[i]].flux], order)
        f_unc   == IaddAll(IntZero,
                           [i \in 1..n_orbit |->
                               SquareSides(orbit[order[i]].error)],
                           [i \in 1..n_orbit |-> ""])
        \* self.flux /= self._n_orbit, in place
        divided == [s \in Sides |-> [p \in 1..Len(flux.value[s]) |->
                       RatDiv(flux.value[s][p], R(n_orbit))]]
    IN  IF n_orbit = 0
        \* `o` was never bound: visit.orbit[o] is a NameError
        THEN [raised |-> "NameError", self |-> <<>>, orbit |-> orbit]
        ELSE [raised |-> "",
              self |->
                 [_n_orbit |-> n_orbit,
                  wavelength |-> orbit[order[n_orbit]].wavelength,
                  flux |-> divided,
                  \* self.f_unc ** 0.5 / self._n_orbit, as the number under
                  \* the root and the divisor
                  f_unc |-> [s \in Sides |->
                                [p \in 1..Len(f_unc.value[s]) |->
                                    [sqrt_of |-> f_unc.value[s][p],
                                     over |-> n_orbit]]],
                  start_JD |-> [i \in 1..n_orbit |-> orbit[order[i]].start_JD],
                  end_JD |-> [i \in 1..n_orbit |-> orbit[order[i]].end_JD]],
              orbit |-> [d \in DOMAIN orbit |->
                            IF flux.owner = d
                            THEN [orbit[d] EXCEPT !.flux = divided]
                            ELSE orbit[d]]]

\* the orders in which a dict with the keys ds is iterated
OrbitOrders(ds) ==
    {o \in UNION {[1..n -> ds] : n \in {Cardinality(ds)}} :
        \A a, b \in DOMAIN o : o[a] = o[b] => a = b}

\* sunburn: combined = CombinedSpectra(visit)
VisitCombinedSpectra(order) ==
    /\ visit.exists
    /\ \E out \in {CombinedSpectra(visit.orbit, order)} :
          /\ visit' = [visit EXCEPT !.orbit = out.orbit]
          /\ ret' = [op |-> "CombinedSpectra", raised |-> out.raised,
                     n_splits |-> 0, order |-> order, self |-> out.self,
                     before |-> visit.orbit]
    /\ UNCHANGED <<splitdir, toolVars, errVars, callerVars>>

----------------------------------------------------------------------------
(* Stand-alone spectra of both modules *)

ErrGplChoices == {GplNone, DefaultGpl, <<<<0, 2>>, <<0, 2>>>>}

\* a spectrum, the last method called on it ("" after construction) and
\* the shift_net or n_splits that call was given
Called(obj, op, arg) == [obj |-> obj, op |-> op, arg |-> arg]

CosIdle ==
    Called(COSSpectrum(Name("ds1", 0), GplNone, X1dFile("ds1")), "", 0)

BcosIdle ==
    [obj |-> BlastoiseCOSSpectrum(Name("ds1", 0), GplNone, X1dFile("ds1")),
     called |-> FALSE, raised |-> ""]

\* sunburn: COSSpectrum(dataset_name, good_pixel_limits)
CosNew(d, good_pixel_limits) ==
    /\ cos' = Called(COSSpectrum(Name(d, 0), good_pixel_limits, X1dFile(d)),
                     "", 0)
    /\ UNCHANGED <<bcos, toolVars, visitVars, callerVars>>

\* sunburn: cos.compute_proper_error(shift_net)
CosComputeProperError(shift_net) ==
    /\ cos' = Called(compute_proper_error(cos.obj, shift_net),
                     "compute_proper_error", shift_net)
    /\ UNCHANGED <<bcos, toolVars, visitVars, callerVars>>

\* sunburn: cos.time_tag_split(n_splits, out_dir, path_calibration_files);
\* the pipeline leaves its n_splits files in out_dir
CosTimeTagSplit(n_splits) ==
    LET d == cos.obj.dataset_name.root
    IN  /\ splitdir' = [splitdir EXCEPT ![d] = n_splits]
        /\ cos' = Called(time_tag_split(cos.obj, n_splits,
                                        DirFiles(d, n_splits)),
                         "time_tag_split", n_splits)
        /\ UNCHANGED <<visit, ret, bcos, toolVars, callerVars>>

\* python's None, for an argument left unset
None == <<>>

\* the time_bins a caller passes: none, or the edges 0, 600, 1200 s
TimeBinsChoices == {None, <<R(0), R(600), R(1200)>>}

\* sunburn: cos.time_tag_split(time_bins=time_bins, out_dir=...,
\* auto_extract=auto_extract, path_calibration_files=...), n_splits left
\* unset.  isinstance(n_splits, int) is false, so time_bins stays as given:
\* None raises the ValueError of line 601; otherwise splittag runs, and
\* with auto_extract the extraction reaches `for i in range(n_splits)`
\* (line 672), a TypeError on None, before the root_<i>_x1d.fits files are
\* written and before self.split is assigned; without auto_extract the
\* method returns after splittag, self.split untouched
CosTimeTagSplitBins(time_bins, auto_extract) ==
    LET raised == IF time_bins = None THEN "ValueError"
                  ELSE IF auto_extract THEN "TypeError"
                  ELSE ""
    IN  /\ cos' = Called(cos.obj, "time_tag_split(time_bins)",
                         [time_bins |-> time_bins,
                          auto_extract |-> auto_extract,
                          raised |-> raised])
        /\ UNCHANGED <<bcos, toolVars, visitVars, callerVars>>

\* sunburn: cos.assign_splits(path); split_list is what glob returns
CosAssignSplits(split_list) ==
    LET d == cos.obj.dataset_name.root
    IN  /\ cos' = Called(assign_splits(cos.obj, DirFiles(d, splitdir[d]),
                                       split_list),
                         "assign_splits", 0)
        /\ UNCHANGED <<bcos, toolVars, visitVars, callerVars>>

\* the caller: cos.split[i].compute_proper_error(), as Visit does for the
\* splits of its orbits
CosSplitComputeProperError(i) ==
    /\ i < Len(cos.obj.split)
    /\ cos' = Called([cos.obj EXCEPT !.split[i + 1] =
                         compute_proper_error(At(cos.obj.split, i),
                                              ShiftNetDefault)],
                     "split.compute_proper_error", i)
    /\ UNCHANGED <<bcos, toolVars, visitVars, callerVars>>

\* the caller: kept = copy.deepcopy(cos.split), the splits as they are now
CallerCopiesSplits ==
    /\ ~cos.obj.split_none
    /\ ret' = [op |-> "copy.deepcopy(cos.split)", raised |-> "",
               n_splits |-> Len(cos.obj.split), value |-> cos.obj.split]
    /\ UNCHANGED <<splitdir, visit, cos, bcos, toolVars, callerVars>>

\* blastoise: COSSpectrum(dataset_name, good_pixel_limits)
BcosNew(d, good_pixel_limits) ==
    /\ bcos' = [obj |-> BlastoiseCOSSpectrum(Name(d, 0), good_pixel_limits,
                                             X1dFile(d)),
                called |-> FALSE, raised |-> ""]
    /\ UNCHANGED <<cos, toolVars, visitVars, callerVars>>

\* blastoise: cos.compute_proper_error()
BcosComputeProperError ==
    /\ IF BlastoiseBroadcasts(bcos.obj)
       THEN bcos' = [obj |-> blastoise_compute_proper_error(bcos.obj),
                     called |-> TRUE, raised |-> ""]
       ELSE bcos' = [bcos EXCEPT !.called = TRUE, !.raised = "ValueError"]
    /\ UNCHANGED <<cos, toolVars, visitVars, callerVars>>

----------------------------------------------------------------------------
(* Calls of the pure functions of tools.py *)

NiIdle == [called |-> FALSE, array |-> <<>>, target_value |-> 0, index |-> 0]

PsIdle == [called |-> FALSE, wavelength_array |-> <<>>,
           wavelength_range |-> <<>>, out |-> Returned(0)]

\* the ascending arrays of 2..MaxLen elements over 0..MaxVal
SortedArrays ==
    {a \in UNION {[1..n -> 0..MaxVal] : n \in 2..MaxLen} : IsSorted(a)}

Targets == (-1)..(MaxVal + 1)

\* wavelengths at, just inside and just outside the bounds of the sides
SideBounds == {1025, 1035, 1260, 1270}

SideArrays == {<<lo, (lo + hi) \div 2, hi>> : lo, hi \in SideBounds} \
                 {<<b, b, b>> : b \in SideBounds}

RangeValues == UNION {{b - 1, b, b + 1} : b \in SideBounds}

NearestIndexCall ==
    /\ ~ni.called /\ ~ps.called
    /\ \E array \in SortedArrays, target_value \in Targets :
          ni' = [called |-> TRUE, array |-> array,
                 target_value |-> target_value,
                 index |-> nearest_index(array, target_value)]
    /\ ps' = PsIdle
    /\ UNCHANGED <<visitVars, errVars, callerVars>>

PickSideCall ==
    /\ ~ni.called /\ ~ps.called
    /\ \E s0, s1 \in SideArrays, lo, hi \in RangeValues :
          ps' = [called |-> TRUE, wavelength_array |-> <<s0, s1>>,
                 wavelength_range |-> <<lo, hi>>,
                 out |-> pick_side(<<s0, s1>>, <<lo, hi>>)]
    /\ ni' = NiIdle
    /\ UNCHANGED <<visitVars, errVars, callerVars>>

----------------------------------------------------------------------------
(* Specifications *)

\* the visit: the data directory, and a split directory that may already
\* hold the files of a split made earlier
Init ==
    /\ splitdir \in [Datasets -> 0..MaxVisitSplits]
    /\ visit = NoVisit
    /\ ret = Outcome("", "", 0)
    /\ ni = NiIdle /\ ps = PsIdle
    /\ cos = CosIdle /\ bcos = BcosIdle
    /\ velocity_range = <<>>

Next ==
    \/ \E ds \in SUBSET Datasets, ins \in Instruments,
          gpl \in GplChoices, cpe \in BOOLEAN :
          VisitNew(ds, ins, gpl, cpe)
    \/ \E n \in 1..MaxVisitSplits : VisitTimeTagSplit(n)
    \/ \E l \in Listings(DOMAIN visit.orbit) : VisitAssignSplits(l)

Spec == Init /\ [][Next]_vars

InitIdle ==
    /\ splitdir = [d \in Datasets |-> 0]
    /\ visit = NoVisit
    /\ ret = Outcome("", "", 0)
    /\ ni = NiIdle /\ ps = PsIdle
    /\ cos = CosIdle /\ bcos = BcosIdle
    /\ velocity_range = <<>>

NextTools ==
    \/ NearestIndexCall
    \/ PickSideCall

SpecTools == InitIdle /\ [][NextTools]_vars

\* a visit is made, the caller recomputes the errors of some of its orbits
\* and combines them
NextCombined ==
    \/ \E ds \in SUBSET Datasets, ins \in Instruments,
          gpl \in ErrGplChoices, cpe \in BOOLEAN :
          VisitNew(ds, ins, gpl, cpe)
    \/ \E d \in Datasets, sh \in 1..MaxShift :
          VisitOrbitComputeProperError(d, sh)
    \/ \E order \in OrbitOrders(DOMAIN visit.orbit) :
          VisitCombinedSpectra(order)

SpecCombined == InitIdle /\ [][NextCombined]_vars

NextError ==
    \/ \E d \in Datasets, gpl \in ErrGplChoices : CosNew(d, gpl)
    \/ \E sh \in 1..MaxShift : CosComputeProperError(sh)
    \/ \E d \in Datasets, gpl \in ErrGplChoices : BcosNew(d, gpl)
    \/ BcosComputeProperError

SpecError == InitIdle /\ [][NextError]_vars

\* a stand-alone sunburn spectrum and a split directory that may already
\* hold the files of a split made earlier
InitSpectrum ==
    /\ splitdir \in [Datasets -> 0..MaxSplits]
    /\ visit = NoVisit
    /\ ret = Outcome("", "", 0)
    /\ ni = NiIdle /\ ps = PsIdle
    /\ cos = CosIdle /\ bcos = BcosIdle
    /\ velocity_range = <<>>

NextSpectrum ==
    \/ \E d \in Datasets, gpl \in ErrGplChoices : CosNew(d, gpl)
    \/ CosComputeProperError(ShiftNetDefault)
    \/ \E n \in 1..MaxSplits : CosTimeTagSplit(n)
    \/ \E l \in Perms(splitdir[cos.obj.dataset_name.root]) :
          CosAssignSplits(l)
    \/ \E tb \in TimeBinsChoices, ae \in BOOLEAN : CosTimeTagSplitBins(tb, ae)

SpecSpectrum == InitSpectrum /\ [][NextSpectrum]_vars

\* a spectrum of dataset ds2 built with the default limits, nothing split
\* yet
InitResplit ==
    /\ splitdir = [d \in Datasets |-> 0]
    /\ visit = NoVisit
    /\ ret = Outcome("", "", 0)
    /\ ni = NiIdle /\ ps = PsIdle
    /\ cos = Called(COSSpectrum(Name("ds2", 0), DefaultGpl, X1dFile("ds2")),
                    "", 0)
    /\ bcos = BcosIdle
    /\ velocity_range = <<>>

\* the spectrum is split and split again, by either method, the caller
\* computing the proper errors of splits and keeping copies in between
NextResplit ==
    \/ \E n \in 1..MaxSplits : CosTimeTagSplit(n)
    \/ \E l \in Perms(splitdir[cos.obj.dataset_name.root]) :
          CosAssignSplits(l)
    \/ CosSplitComputeProperError(0)
    \/ CallerCopiesSplits

SpecResplit == InitResplit /\ [][NextResplit]_vars

----------------------------------------------------------------------------
(* Properties of nearest_index and pick_side, under SpecTools *)

\* v lies within the range of the sorted array of the last call
TargetInRange ==
    /\ ni.called
    /\ At(ni.array, 0) <= ni.target_value
    /\ ni.target_value <= At(ni.array, -1)

\* C1: for every ascending array A of at least two elements and every
\* target v with A[0] <= v <= A[last], nearest_index(A, v) is an index i of
\* A with |A[i] - v| <= |A[j] - v| for every index j of A
C1_NearestIndexMinimises ==
    TargetInRange =>
        /\ ni.index \in 0..(Len(ni.array) - 1)
        /\ \A j \in 0..(Len(ni.array) - 1) :
              Abs(At(ni.array, ni.index) - ni.target_value)
                 <= Abs(At(ni.array, j) - ni.target_value)

\* a call whose target is strictly nearer to one interior neighbour than to
\* the other, so that the final comparison decides the result
C1_Witness ==
    /\ TargetInRange
    /\ ni.array = <<0, 2, 5>>
    /\ ni.target_value = 3
    /\ ni.index = 1

\* the target of the last call is exactly equidistant from the straddling
\* elements A[k-1] < A[k]
IsTie(k) ==
    /\ ni.called
    /\ k \in 1..(Len(ni.array) - 1)
    /\ At(ni.array, k - 1) < At(ni.array, k)
    /\ ni.target_value - At(ni.array, k - 1)
          = At(ni.array, k) - ni.target_value

\* C2 as stated: on an exact tie between A[k-1] < A[k], nearest_index
\* returns the lower neighbour k-1
C2_TieToLower ==
    \A k \in 1..MaxLen : IsTie(k) => ni.index = k - 1

\* C2 as the code has it: on an exact tie between A[k-1] < A[k] the strict
\* comparison `v - left < right - v` is false, and nearest_index returns the
\* upper neighbour k
C2_TieToUpper ==
    \A k \in 1..MaxLen : IsTie(k) => ni.index = k

\* an exact tie between A[0] = 0 and A[1] = 2, resolved to index 1
C2_Witness ==
    /\ IsTie(1)
    /\ ni.array = <<0, 2, 5>>
    /\ ni.target_value = 1
    /\ ni.index = 1

\* the range of the last pick_side call lies strictly inside the min/max of
\* side s (1-based position in the pair)
StrictlyInside(s) ==
    /\ ps.wavelength_range[1] > SeqMin(ps.wavelength_array[s])
    /\ ps.wavelength_range[2] < SeqMax(ps.wavelength_array[s])

\* the sides and ranges of the scenario
ScenarioSides == <<<<1260, 1265, 1270>>, <<1025, 1030, 1035>>>>

\* C3: for every pair of sides and every range strictly inside the min/max
\* of exactly one side, pick_side returns that side's index; with side 0
\* covering [1260,1270] and side 1 covering [1025,1035], [1261,1269] gives 0
\* and [1026,1034] gives 1.  (pick_side reads nothing but its arguments, so
\* equal inputs give equal indices.)
C3_PickSideReturnsTheSide ==
    ps.called =>
        /\ StrictlyInside(1) /\ ~StrictlyInside(2) => ps.out = Returned(0)
        /\ StrictlyInside(2) /\ ~StrictlyInside(1) => ps.out = Returned(1)
        /\ ps.wavelength_array = ScenarioSides
              /\ ps.wavelength_range = <<1261, 1269>> => ps.out = Returned(0)
        /\ ps.wavelength_array = ScenarioSides
              /\ ps.wavelength_range = <<1026, 1034>> => ps.out = Returned(1)

\* the scenario's second call: the range inside side 1 only, index 1 returned
C3_Witness ==
    /\ ps.called
    /\ ps.wavelength_array = ScenarioSides
    /\ ps.wavelength_range = <<1026, 1034>>
    /\ StrictlyInside(2) /\ ~StrictlyInside(1)
    /\ ps.out = Returned(1)

\* C4: pick_side raises its range-not-covered ValueError and returns no
\* index for every range that is strictly inside neither side: one spanning
\* both sides, one outside both, one partly overlapping a side or touching
\* its bounds, such as [1024,1036] against [1260,1270] and [1025,1035]
C4_PickSideRejectsUncovered ==
    ps.called =>
        /\ ~StrictlyInside(1) /\ ~StrictlyInside(2) => ps.out = RangeNotCovered
        /\ ps.wavelength_array = ScenarioSides
              /\ ps.wavelength_range = <<1024, 1036>> => ps.out = RangeNotCovered
        /\ ps.out.raised => ps.out.index \notin {0, 1}

\* the scenario's third call: [1024,1036] overlaps side 1 and is refused
C4_Witness ==
    /\ ps.called
    /\ ps.wavelength_array = ScenarioSides
    /\ ps.wavelength_range = <<1024, 1036>>
    /\ ps.out = RangeNotCovered

----------------------------------------------------------------------------
(* Properties of compute_proper_error, under SpecError *)

\* self carries the proper error of shift_net: on every pixel of both sides
\* sensitivity = flux / (net + shift_net) / exp_time and
\* error = (gross_counts + 1)^0.5 * sensitivity, finite where net = 0;
\* exp_time[s] is the exposure time of side s
HasProperError(self, shift_net, exp_time) ==
    /\ DOMAIN self.sensitivity = Sides
    /\ \A s \in Sides :
          /\ Len(self.sensitivity[s]) = Len(self.flux[s])
          /\ Len(self.error[s]) = Len(self.flux[s])
          /\ \A p \in 1..Len(self.flux[s]) :
                /\ self.sensitivity[s][p] =
                      RatDiv(RatDiv(self.flux[s][p],
                                    RatAdd(R(self.net[s][p]), R(shift_net))),
                             exp_time[s])
                /\ self.error[s][p] =
                      RatMul(R(Sqrt(self.gross_counts[s][p] + 1)),
                             self.sensitivity[s][p])
                /\ self.net[s][p] = 0 => IsFinite(self.error[s][p])

\* C5: after compute_proper_error(shift_net) on a COS spectrum, of sunburn
\* or of blastoise, every pixel of both sides has
\* error = (gross_counts + 1)^0.5 * sensitivity with
\* sensitivity = flux / (net + shift_net) / exposure_time, shift_net
\* defaulting to 1e-7, so a pixel with net = 0 has a finite error
C5_ProperErrorFormula ==
    /\ cos.op = "compute_proper_error" =>
          HasProperError(cos.obj, cos.arg,
                         <<cos.obj.exp_time, cos.obj.exp_time>>)
    /\ bcos.called /\ bcos.raised = "" =>
          HasProperError(bcos.obj, ShiftNetDefault, bcos.obj.exp_time)

\* blastoise's compute_proper_error has returned and left a non-finite
\* error on a pixel whose net count rate is 0
C5_Witness ==
    /\ bcos.called /\ bcos.raised = ""
    /\ \E s \in Sides : \E p \in 1..Len(bcos.obj.flux[s]) :
          /\ bcos.obj.net[s][p] = 0
          /\ ~IsFinite(bcos.obj.error[s][p])

----------------------------------------------------------------------------
(* Properties of the splits of a spectrum, under SpecSpectrum *)

\* the seconds from Julian Date a to Julian Date b
SecondsBetween(a, b) == RatMul(RatSub(b, a), R(SecondsPerDay))

RECURSIVE RatSum(_)
RatSum(xs) == IF xs = <<>> THEN R(0) ELSE RatAdd(Head(xs), RatSum(Tail(xs)))

\* the last call (re)built the splits of the spectrum, at least one
HasSplits ==
    /\ cos.op \in {"time_tag_split", "assign_splits"}
    /\ Len(cos.obj.split) >= 1

\* <<start, end>> of split i (0-based) in seconds from the parent's start
SplitOffsets(self, i) ==
    <<SecondsBetween(self.start_JD, At(self.split, i).start_JD),
      SecondsBetween(self.start_JD, At(self.split, i).end_JD)>>

\* split i runs from i*T/n to (i+1)*T/n seconds after the parent's start
StampedEvenly(self, T) ==
    LET n == Len(self.split)
    IN  \A i \in 0..(n - 1) :
           SplitOffsets(self, i) = <<RatDiv(RatMul(R(i), T), R(n)),
                                     RatDiv(RatMul(R(i + 1), T), R(n))>>

\* C6: splitting a parent of duration T into n equal splits, by
\* time_tag_split or assign_splits, stamps split i with
\* start = parent start + i*T/n and end = parent start + (i+1)*T/n, T being
\* the parent's exposure time or the length of its time window, whichever
\* reading fits; for T = 1200 s and n = 3 the offsets are 0-400 s,
\* 400-800 s and 800-1200 s
C6_SplitsStampedEvenly ==
    HasSplits =>
        /\ \/ StampedEvenly(cos.obj, cos.obj.exp_time)
           \/ StampedEvenly(cos.obj, SecondsBetween(cos.obj.start_JD,
                                                    cos.obj.end_JD))
        /\ /\ cos.obj.exp_time = R(1200)
           /\ SecondsBetween(cos.obj.start_JD, cos.obj.end_JD) = R(1200)
           /\ Len(cos.obj.split) = 3
           => [i \in 1..3 |-> SplitOffsets(cos.obj, i - 1)] =
                 <<<<R(0), R(400)>>, <<R(400), R(800)>>, <<R(800), R(1200)>>>>

\* ds2 (EXPTIME 1200 s, time window 1300 s) split in 3 by time_tag_split:
\* split 0 is stamped 0-500 s
C6_Witness ==
    /\ HasSplits
    /\ cos.op = "time_tag_split"
    /\ cos.obj.dataset_name.root = "ds2"
    /\ Len(cos.obj.split) = 3
    /\ SplitOffsets(cos.obj, 0) = <<R(0), R(500)>>

\* C7: whenever a spectrum has splits, the sum over its splits of
\* (end time - start time) equals the parent's end time - start time, for
\* every n >= 1 and every parent start / end / exposure time
C7_SplitDurationsSumToParent ==
    HasSplits =>
        RatSum([k \in 1..Len(cos.obj.split) |->
                   RatSub(cos.obj.split[k].end_JD, cos.obj.split[k].start_JD)])
           = RatSub(cos.obj.end_JD, cos.obj.start_JD)

\* ds2 split in 3: the splits' durations add up to 1500 s, the parent's
\* window is 1300 s long
C7_Witness ==
    /\ HasSplits
    /\ cos.obj.dataset_name.root = "ds2"
    /\ Len(cos.obj.split) = 3
    /\ SecondsBetween(cos.obj.start_JD, cos.obj.end_JD) = R(1300)
    /\ RatMul(RatSum([k \in 1..3 |->
                         RatSub(cos.obj.split[k].end_JD,
                                cos.obj.split[k].start_JD)]),
              R(SecondsPerDay)) = R(1500)

\* C10: assign_splits on a directory holding the n >= 1 split files of the
\* dataset leaves the split list time_tag_split with n splits would leave:
\* position i holds the split made from file i+1 and carries time slice i,
\* in whatever order glob lists the files
C10_AssignSplitsLikeTimeTagSplit ==
    LET d == cos.obj.dataset_name.root
        n == splitdir[d]
    IN  cos.op = "assign_splits" /\ n >= 1 =>
           /\ \A i \in 0..(Len(cos.obj.split) - 1) :
                 At(cos.obj.split, i).dataset_name = Name(d, i + 1)
           /\ cos.obj.split = time_tag_split(cos.obj, n, DirFiles(d, n)).split

\* assign_splits has put the split of file 2 at position 0
C10_Witness ==
    /\ cos.op = "assign_splits"
    /\ Len(cos.obj.split) >= 2
    /\ At(cos.obj.split, 0).dataset_name.part = 2

\* the last call was time_tag_split with n_splits left unset
BinsCall == cos.op = "time_tag_split(time_bins)"

\* C11: time_tag_split raises its missing-prerequisite ValueError if and
\* only if neither time_bins nor n_splits is given; given time_bins alone
\* it returns and leaves a split list of one split per bin
C11_TimeBinsAloneSplit ==
    /\ BinsCall =>
          (cos.arg.raised = "ValueError" <=> cos.arg.time_bins = None)
    /\ cos.op = "time_tag_split" => Len(cos.obj.split) = cos.arg
    /\ BinsCall /\ cos.arg.time_bins # None =>
          /\ cos.arg.raised = ""
          /\ ~cos.obj.split_none
          /\ Len(cos.obj.split) = Len(cos.arg.time_bins) - 1

\* time_tag_split called with time_bins and the default auto_extract has
\* raised TypeError, the spectrum still without splits
C11_Witness ==
    /\ BinsCall
    /\ cos.arg.time_bins # None /\ cos.arg.auto_extract
    /\ cos.arg.raised = "TypeError"
    /\ cos.obj.split_none

----------------------------------------------------------------------------
(* Properties of the Visit, under Spec *)

\* C8: Visit.time_tag_split and Visit.assign_splits on a visit whose
\* instrument is not 'cos' raise the unsupported-instrument ValueError and
\* leave the visit and the split directory as they were: no orbit gains or
\* loses splits, no error array is recomputed
C8_NonCosVisitRejected ==
    [][(/\ visit.exists /\ visit.instrument # "cos"
        /\ \/ \E n \in 1..MaxVisitSplits : VisitTimeTagSplit(n)
           \/ \E l \in Listings(DOMAIN visit.orbit) : VisitAssignSplits(l))
       => /\ ret'.raised = "ValueError"
          /\ visit' = visit
          /\ splitdir' = splitdir]_vars

\* a splitting method has been called on a visit of another instrument and
\* has raised
C8_Witness ==
    /\ visit.exists /\ visit.instrument # "cos"
    /\ ret.op \in {"Visit.time_tag_split", "Visit.assign_splits"}
    /\ ret.raised = "ValueError"

\* C9: after Visit.time_tag_split(n_splits, ...) returns on a COS visit,
\* every spectrum of the visit holds exactly n_splits splits, and each split
\* has its sensitivity set and its error as compute_proper_error's formula
\* gives it with the default shift_net
C9_VisitSplitsHaveProperErrors ==
    ret.op = "Visit.time_tag_split" /\ ret.raised = "" =>
        \A d \in DOMAIN visit.orbit :
            /\ ~visit.orbit[d].split_none
            /\ Len(visit.orbit[d].split) = ret.n_splits
            /\ \A k \in 1..Len(visit.orbit[d].split) :
                  LET split_obs == visit.orbit[d].split[k]
                  IN  HasProperError(split_obs, ShiftNetDefault,
                                     <<split_obs.exp_time, split_obs.exp_time>>)

\* Visit.time_tag_split(2, ...) has returned on a COS visit of two spectra
C9_Witness ==
    /\ ret.op = "Visit.time_tag_split" /\ ret.raised = ""
    /\ visit.instrument = "cos"
    /\ DOMAIN visit.orbit = Datasets
    /\ ret.n_splits = 2
    /\ \A d \in Datasets : Len(visit.orbit[d].split) = 2

----------------------------------------------------------------------------
(* UVSpectrum.integrated_flux (sunburn) and COSSpectrum.integrated_flux      *)
(* (blastoise)                                                              *)

\* `ls`, the speed of light, with velocities measured in units of c/1262:
\* a velocity of k units displaces the reference wavelength 1262 by k
LightSpeed == 1262

\* largest velocity a caller's velocity_range array is let to reach
MaxVelocity == 5

\* scipy's _basic_simps(y, start, stop, x, dx, axis): Simpson's rule on the
\* pairs of intervals that start at start, start + 2, ... below stop
BasicSimps(y, x, start, stop) ==
    RatSum([j \in 1..((stop - start + 1) \div 2) |->
        LET i       == start + 2 * (j - 1)
            h0      == R(At(x, i + 1) - At(x, i))
            h1      == R(At(x, i + 2) - At(x, i + 1))
            hsum    == RatAdd(h0, h1)
            hprod   == RatMul(h0, h1)
            h0divh1 == RatDiv(h0, h1)
        IN  RatMul(RatDiv(hsum, R(6)),
                RatAdd(RatAdd(
                    RatMul(At(y, i), RatSub(R(2), RatDiv(R(1), h0divh1))),
                    RatDiv(RatMul(RatMul(At(y, i + 1), hsum), hsum), hprod)),
                    RatMul(At(y, i + 2), RatSub(R(2), h0divh1))))])

\* scipy.integrate.simps(y, x=x) with its default even='avg', on N >= 1
\* samples: for even N the mean of Simpson's rule on the first N - 1 samples
\* plus a trapezoid on the last interval, and of a trapezoid on the first
\* interval plus Simpson's rule on the last N - 1 samples
Simps(y, x) ==
    LET N == Len(y)
    IN  IF N % 2 = 0
        THEN LET last_dx  == R(At(x, -1) - At(x, -2))
                 first_dx == R(At(x, 1) - At(x, 0))
                 val == RatAdd(
                            RatMul(RatMul(Rat(1, 2), last_dx),
                                   RatAdd(At(y, -1), At(y, -2))),
                            RatMul(RatMul(Rat(1, 2), first_dx),
                                   RatAdd(At(y, 1), At(y, 0))))
                 result == RatAdd(BasicSimps(y, x, 0, N - 3),
                                  BasicSimps(y, x, 1, N - 2))
             IN  RatAdd(RatDiv(result, R(2)), RatDiv(val, R(2)))
        ELSE BasicSimps(y, x, 0, N - 2)

\* np.sum((delta_wl * error) ** 2), the number np.sqrt is applied to
QuadraticSum(delta_wl, error) ==
    RatSum([k \in 1..Len(error) |->
               RatMul(RatMul(R(delta_wl[k]), error[k]),
                      RatMul(R(delta_wl[k]), error[k]))])

\* the uncertainty_method strings a caller passes
MethodChoices == {"quadratic_sum", "bootstrap", "montecarlo"}

\* the variances np.std may find among the random draws of the bootstrap
VarianceDraws == {R(0), R(1)}

\* what a call of integrated_flux did: the tuple it returned, or the
\* exception it raised and that exception's message
FluxReturned(int_flux, uncertainty) ==
    [raised |-> "", message |-> "", value |-> <<int_flux, uncertainty>>]

FluxRaised(error, message) ==
    [raised |-> error, message |-> message, value |-> <<>>]

\* a plausible slip: the final else branch returns like 'quadratic_sum'
CheckMethod_lenient(uncertainty_method, variance, quadratic, negative_scale) ==
    IF uncertainty_method = "bootstrap"
    THEN (IF negative_scale THEN FluxRaised("ValueError", "scale < 0")
          ELSE [raised |-> "", sqrt_of |-> variance])
    ELSE [raised |-> "", sqrt_of |-> quadratic]

\* the if / elif / else on uncertainty_method: the uncertainty as the number
\* whose square root it is, or the exception raised (np.random.normal
\* refuses a negative scale)
CheckMethod(uncertainty_method, variance, quadratic, negative_scale) ==
    IF uncertainty_method = "quadratic_sum"
    THEN [raised |-> "", sqrt_of |-> quadratic]
    ELSE IF uncertainty_method = "bootstrap"
    THEN (IF negative_scale THEN FluxRaised("ValueError", "scale < 0")
          ELSE [raised |-> "", sqrt_of |-> variance])
    ELSE FluxRaised("ValueError", "uncertainty_method not accepted")

\* integrated_flux from the wavelength_range on (both copies read alike):
\* pick_side, the two nearest_index, simps on the slice [min_wl:max_wl]
\* (which fails on an empty slice), then the uncertainty
integrated_flux(self, wavelength_range, uncertainty_method, variance) ==
    LET side     == pick_side(self.wavelength, wavelength_range)
        ind      == side.index + 1
        wl       == self.wavelength[ind]
        min_wl   == nearest_index(wl, wavelength_range[1])
        max_wl   == nearest_index(wl, wavelength_range[2])
        delta_wl == [k \in 1..(Len(wl) - 1) |-> wl[k + 1] - wl[k]]
        y        == Slice(self.flux[ind], min_wl, max_wl)
        x        == Slice(wl, min_wl, max_wl)
        err      == Slice(self.error[ind], min_wl, max_wl)
        unc      == CheckMethod(uncertainty_method, variance,
                                QuadraticSum(Slice(delta_wl, min_wl, max_wl),
                                             err),
                                \E k \in 1..Len(err) : err[k].num < 0)
    IN  IF side.raised
        THEN FluxRaised("ValueError", "range not available")
        ELSE IF Len(y) = 0
        THEN FluxRaised("IndexError", "simps")
        ELSE IF unc.raised # ""
        THEN unc
        ELSE FluxReturned(Simps(y, x), [sqrt_of |-> unc.sqrt_of])

\* the flux window of integrated_flux for a range a side covers:
\* self.flux[ind][min_wl:max_wl]
FluxWindow(self, wavelength_range) ==
    LET ind    == pick_side(self.wavelength, wavelength_range).index + 1
        wl     == self.wavelength[ind]
        min_wl == nearest_index(wl, wavelength_range[1])
        max_wl == nearest_index(wl, wavelength_range[2])
    IN  Slice(self.flux[ind], min_wl, max_wl)

\* a plausible slip: the slice stops at max_wl as the flux window does
extract_wl_exclusive(self, wavelength_range) ==
    LET side   == pick_side(self.wavelength, wavelength_range)
        wl     == self.wavelength[side.index + 1]
        min_wl == nearest_index(wl, wavelength_range[1])
        max_wl == nearest_index(wl, wavelength_range[2])
    IN  IF side.raised
        THEN FluxRaised("ValueError", "range not available")
        ELSE [raised |-> "", message |-> "", value |-> Slice(wl, min_wl, max_wl)]

\* UVSpectrum.extract_wl: pick_side, the two nearest_index, and the slice
\* self.wavelength[ind][min_wl:max_wl + 1]
extract_wl(self, wavelength_range) ==
    LET side   == pick_side(self.wavelength, wavelength_range)
        wl     == self.wavelength[side.index + 1]
        min_wl == nearest_index(wl, wavelength_range[1])
        max_wl == nearest_index(wl, wavelength_range[2])
    IN  IF side.raised
        THEN FluxRaised("ValueError", "range not available")
        ELSE [raised |-> "", message |-> "", value |-> Slice(wl, min_wl, max_wl + 1)]

\* the record of a call in ret: the method, the object it was called on, its
\* arguments, the wavelength range it integrated over, the caller's
\* velocity_range array as the call left it, and what the call did
FluxOutcome(op, self, args, wavelength_range, velocity_after, out) ==
    [op |-> op, raised |-> out.raised, n_splits |-> 0,
     message |-> out.message, value |-> out.value, self |-> self,
     args |-> args, wavelength_range |-> wavelength_range,
     velocity_after |-> velocity_after]

FluxArgs(by, reference_wl, rv_correction, uncertainty_method) ==
    [by |-> by, reference_wl |-> reference_wl,
     rv_correction |-> rv_correction,
     uncertainty_method |-> uncertainty_method]

\* sunburn: cos.integrated_flux(wavelength_range=...,
\*                              uncertainty_method=...)
CosIntegratedFlux(wavelength_range, uncertainty_method, variance) ==
    /\ ret' = FluxOutcome("UVSpectrum.integrated_flux", cos.obj,
                          FluxArgs("wavelength_range", 0, 0,
                                   uncertainty_method),
                          wavelength_range, None,
                          integrated_flux(cos.obj, wavelength_range,
                                          uncertainty_method, variance))
    /\ UNCHANGED <<splitdir, visit, cos, bcos, toolVars, callerVars>>

\* velocity_range * reference_wl / ls + reference_wl
VelocityToWavelength(velocity, reference_wl) ==
    [k \in 1..2 |-> (velocity[k] * reference_wl) \div LightSpeed + reference_wl]

\* sunburn: cos.integrated_flux(velocity_range=velocity_range,
\*     reference_wl=..., rv_correction=..., uncertainty_method=...), the
\* caller passing its array object; `velocity_range += rv_correction` adds
\* in place, in the caller's array
CosIntegratedFluxVelocity(reference_wl, rv_correction, uncertainty_method, variance) ==
    /\ velocity_range # None
    /\ velocity_range[2] + rv_correction <= MaxVelocity
    /\ LET shifted == [k \in 1..2 |-> velocity_range[k] + rv_correction]
           wavelength_range == VelocityToWavelength(shifted, reference_wl)
       IN  /\ velocity_range' = shifted
           /\ ret' = FluxOutcome("UVSpectrum.integrated_flux", cos.obj,
                         FluxArgs("velocity_range", reference_wl,
                                  rv_correction, uncertainty_method),
                         wavelength_range, shifted,
                         integrated_flux(cos.obj, wavelength_range,
                                         uncertainty_method, variance))
    /\ UNCHANGED <<splitdir, visit, cos, bcos, toolVars>>

\* the caller makes a new velocity_range array
CallerNewVelocityRange(velocity) ==
    /\ velocity_range # velocity
    /\ velocity_range' = velocity
    /\ UNCHANGED <<toolVars, visitVars, errVars>>

\* blastoise: bcos.integrated_flux(wavelength_range, uncertainty_method)
BcosIntegratedFlux(wavelength_range, uncertainty_method, variance) ==
    /\ ret' = FluxOutcome("blastoise COSSpectrum.integrated_flux", bcos.obj,
                          FluxArgs("wavelength_range", 0, 0,
                                   uncertainty_method),
                          wavelength_range, None,
                          integrated_flux(bcos.obj, wavelength_range,
                                          uncertainty_method, variance))
    /\ UNCHANGED <<splitdir, visit, cos, bcos, toolVars, callerVars>>

\* sunburn: cos.extract_wl(wavelength_range)
CosExtractWl(wavelength_range) ==
    /\ ret' = FluxOutcome("UVSpectrum.extract_wl", cos.obj,
                          FluxArgs("wavelength_range", 0, 0, ""),
                          wavelength_range, None,
                          extract_wl(cos.obj, wavelength_range))
    /\ UNCHANGED <<splitdir, visit, cos, bcos, toolVars, callerVars>>

\* wavelength ranges a caller asks for: below, across and inside the first
\* side, empty and reversed ones, and one inside the second side
FluxLows == {1259, 1261, 1266}

FluxHighs == {1026, 1262, 1266, 1267}

FluxRanges == {<<lo, hi>> : lo \in FluxLows, hi \in FluxHighs}
                  \cup {<<1026, 1030>>}

VelocityChoices == {<<-1, 3>>}

RvChoices == {0, 1}

\* the variances to draw from: the bootstrap alone draws
Draws(uncertainty_method) ==
    IF uncertainty_method = "bootstrap" THEN VarianceDraws ELSE {R(0)}

NextFlux ==
    \/ \E d \in Datasets, gpl \in ErrGplChoices : CosNew(d, gpl)
    \/ \E wr \in FluxRanges, m \in MethodChoices : \E v \in Draws(m) :
          CosIntegratedFlux(wr, m, v)
    \/ \E rv \in RvChoices, m \in MethodChoices : \E v \in Draws(m) :
          CosIntegratedFluxVelocity(LightSpeed, rv, m, v)
    \/ \E vr \in VelocityChoices : CallerNewVelocityRange(vr)
    \/ \E wr \in FluxRanges, m \in MethodChoices : \E v \in Draws(m) :
          BcosIntegratedFlux(wr, m, v)
    \/ \E wr \in FluxRanges : CosExtractWl(wr)

SpecFlux == InitIdle /\ [][NextFlux]_vars

----------------------------------------------------------------------------
(* Properties of integrated_flux, under SpecFlux                            *)

FluxOps == {"UVSpectrum.integrated_flux",
            "blastoise COSSpectrum.integrated_flux"}

FluxCall == ret.op \in FluxOps

\* ret records a call with an uncertainty_method that is neither
\* 'quadratic_sum' nor 'bootstrap'
Unsupported ==
    /\ FluxCall
    /\ ret.args.uncertainty_method \notin {"quadratic_sum", "bootstrap"}

\* the wavelength range of the call in ret lies strictly inside a side of
\* the spectrum and selects at least one pixel of it
SelectsPixels ==
    \E s \in 1..2 :
        LET wl == ret.self.wavelength[s]
        IN  /\ wl[1] < ret.wavelength_range[1]
            /\ ret.wavelength_range[2] < wl[Len(wl)]
            /\ nearest_index(wl, ret.wavelength_range[1])
                   < nearest_index(wl, ret.wavelength_range[2])

\* C12 as stated: a call of integrated_flux with an uncertainty method
\* other than 'quadratic_sum' and 'bootstrap' fails with the error of an
\* unsupported method, returns no pair, and leaves the arrays of the
\* spectrum as they were.
C12_UnsupportedMethodError ==
    [][(Unsupported' /\ ret' # ret) =>
          /\ ret'.raised = "ValueError"
          /\ ret'.message = "uncertainty_method not accepted"
          /\ ret'.value = <<>>
          /\ cos'.obj = cos.obj /\ bcos'.obj = bcos.obj]_vars

\* C12 amended: a call of integrated_flux with an uncertainty method other
\* than 'quadratic_sum' and 'bootstrap' always fails, returns no pair and
\* leaves the arrays of the spectrum as they were; the error is the one of
\* an unsupported method exactly when the wavelength range lies strictly
\* inside a side and selects at least one pixel, since the method is looked
\* at last: otherwise the call fails before with the error of the range
\* (ValueError, range not available) or of the integration of an empty
\* slice (IndexError).
C12_UnsupportedMethodFailsLast ==
    [][(Unsupported' /\ ret' # ret) =>
          /\ ret'.raised \in {"ValueError", "IndexError"}
          /\ ret'.value = <<>>
          /\ cos'.obj = cos.obj /\ bcos'.obj = bcos.obj
          /\ (ret'.message = "uncertainty_method not accepted"
                  <=> SelectsPixels')
          /\ (ret'.raised = "IndexError" => ret'.message = "simps")]_vars

\* a call with an unsupported method over a range the spectrum covers has
\* failed on the method
C12_Witness ==
    /\ Unsupported
    /\ SelectsPixels
    /\ ret.message = "uncertainty_method not accepted"
    /\ ret.value = <<>>

\* a first call ret records, then the same call again: same method of the
\* same spectrum, same arguments, and for a velocity window the same array
\* object, which nothing but the first call has touched
CalledAgain ==
    /\ FluxCall /\ FluxCall'
    /\ ret'.op = ret.op
    /\ ret'.self = ret.self
    /\ ret'.args = ret.args
    /\ ret.args.uncertainty_method = "quadratic_sum"
    /\ IF ret.args.by = "velocity_range"
       THEN ret.velocity_after = velocity_range
       ELSE ret'.wavelength_range = ret.wavelength_range

\* C13: with 'quadratic_sum', two successive calls of integrated_flux on
\* the same spectrum with the same argument objects return the same pair
\* (flux, uncertainty), for a wavelength range and for a velocity window
\* with a reference wavelength and a non-zero rv_correction alike.
C13_QuadraticSumDeterministic ==
    [][(CalledAgain /\ ret.raised = "") =>
          /\ ret'.raised = ""
          /\ ret'.value = ret.value]_vars

\* the velocity window was integrated with a non-zero rv_correction, and
\* the caller's array is no longer what it passed
C13_Witness ==
    /\ FluxCall
    /\ ret.args.by = "velocity_range"
    /\ ret.args.rv_correction # 0
    /\ ret.args.uncertainty_method = "quadratic_sum"
    /\ ret.raised = ""
    /\ velocity_range = <<1, 5>>

----------------------------------------------------------------------------
(* tools.doppler_shift and tools.combine_spectra                            *)

\* largest number of spectra a caller combines
MaxSpectra == 3

\* largest velocity a caller shifts by, in the units of LightSpeed
MaxDv == 2

\* the out-of-range fill_value 1E-18 of combine_spectra, fluxes being
\* counted in units of 1E-18
FillValue == 1

RatLt(x, y) == x.num * y.den < y.num * x.den

RSeq(ints) == [k \in DOMAIN ints |-> R(ints[k])]

\* how interp1d treats points outside the range of x
Extrapolate == [extrapolate |-> TRUE, value |-> NaN]

FillWith(v) == [extrapolate |-> FALSE, value |-> v]

\* interp1d(x, y, kind='linear', bounds_error=False, fill_value=...)(x_new)
\* on one point, x increasing: the line through the two neighbours found by
\* searchsorted clipped to 1..len(x) - 1, or the fill value out of range
Interp1d(x, y, fill_value, x_new) ==
    LET n     == Len(x)
        below == Cardinality({k \in 1..n : RatLt(x[k], x_new)})
        hi    == Clip(below, 1, n - 1)
        lo    == hi - 1
        slope == RatDiv(RatSub(At(y, hi), At(y, lo)),
                        RatSub(At(x, hi), At(x, lo)))
    IN  IF /\ ~fill_value.extrapolate
           /\ (RatLt(x_new, x[1]) \/ RatLt(x[n], x_new))
        THEN fill_value.value
        ELSE RatAdd(RatMul(slope, RatSub(x_new, At(x, lo))), At(y, lo))

\* the interpolant evaluated on a whole grid
Resample(x, y, fill_value, grid) ==
    [k \in 1..Len(grid) |-> Interp1d(x, y, fill_value, grid[k])]

\* a plausible slip: the size of the velocity is used, its sign lost
DopplerShiftOf_abs(velocity, ref_wl) ==
    RatMul(RatDiv(R(Abs(velocity)), R(LightSpeed)), ref_wl)

\* shift = dv / l_speed * ref_wl
DopplerShiftOf(velocity, ref_wl) ==
    RatMul(RatDiv(R(velocity), R(LightSpeed)), ref_wl)

\* tools.doppler_shift(velocity, ref_wl, wavelength, flux, uncertainty)
\* with the default linear interpolation and extrapolation: the pair
\* (new_flux, new_uncertainty)
doppler_shift(velocity, ref_wl, wavelength, flux, uncertainty) ==
    LET shift  == DopplerShiftOf(velocity, ref_wl)
        new_wv == [k \in 1..Len(wavelength) |-> RatAdd(wavelength[k], shift)]
    IN  <<Resample(new_wv, flux, Extrapolate, wavelength),
          Resample(new_wv, uncertainty, Extrapolate, wavelength)>>

\* a plausible slip: the squared uncertainties are summed but the root is
\* not divided by the number of spectra
CombinedUncertainty_nodiv(f_unc, n_spectra, k) ==
    [sqrt_of |-> RatSum([i \in 1..n_spectra |->
                            RatMul(f_unc[i][k], f_unc[i][k])]),
     over |-> 1]

\* (np.sum(np.array(f_unc) ** 2, axis=0)) ** 0.5 / n_spectra at pixel k, as
\* the number under the root and the divisor
CombinedUncertainty(f_unc, n_spectra, k) ==
    [sqrt_of |-> RatSum([i \in 1..n_spectra |->
                            RatMul(f_unc[i][k], f_unc[i][k])]),
     over |-> n_spectra]

\* tools.combine_spectra(wavelength_list, flux_list, uncertainty_list,
\*                       ref_wavelength, wavelength_grid), n_spectra >= 1
combine_spectra(wavelength_list, flux_list, uncertainty_list, ref_wavelength, wavelength_grid) ==
    LET n_spectra  == Len(wavelength_list)
        wavelength == IF wavelength_grid = None THEN wavelength_list[1]
                      ELSE wavelength_grid
        ff == [i \in 1..n_spectra |->
                  Resample(wavelength_list[i], flux_list[i],
                           FillWith(R(FillValue)), wavelength)]
        fu == [i \in 1..n_spectra |->
                  Resample(wavelength_list[i], uncertainty_list[i],
                           FillWith(R(FillValue)), wavelength)]
        flux  == [k \in 1..Len(wavelength) |->
                     RatDiv(RatSum([i \in 1..n_spectra |-> ff[i][k]]),
                            R(n_spectra))]
        f_unc == [k \in 1..Len(wavelength) |->
                     CombinedUncertainty(fu, n_spectra, k)]
        velocity == [k \in 1..Len(wavelength) |->
                        RatMul(RatDiv(RatSub(wavelength[k], ref_wavelength),
                                      ref_wavelength), R(LightSpeed))]
    IN  IF ref_wavelength # None
        THEN <<wavelength, velocity, flux, f_unc>>
        ELSE <<wavelength, flux, f_unc>>

\* the record of a call of a tool in ret
ToolOutcome(op, args, trips, value) ==
    [op |-> op, raised |-> "", n_splits |-> 0, args |-> args,
     trips |-> trips, value |-> value]

\* the spectra a caller holds: two wavelength grids, on each a flux that is
\* a straight line and one that is not, two uncertainty arrays
ResampleGrids == {RSeq(<<1260, 1262, 1264>>), RSeq(<<1260, 1261, 1264>>)}

ResampleFluxes == {RSeq(<<1, 3, 5>>), RSeq(<<4, 1, 4>>)}

ResampleUncertainties == {RSeq(<<1, 1, 2>>), RSeq(<<2, 3, 1>>)}

ResampleSpectra ==
    [wavelength : ResampleGrids, flux : ResampleFluxes,
     uncertainty : ResampleUncertainties]

\* lists of spectra: one spectrum repeated, and any spectrum paired with
\* one on the even grid
SpectraLists ==
    {[i \in 1..n |-> sp] : sp \in ResampleSpectra, n \in 1..MaxSpectra}
        \cup {<<sp, [wavelength |-> RSeq(<<1260, 1262, 1264>>),
                    flux |-> RSeq(<<4, 1, 4>>),
                    uncertainty |-> RSeq(<<2, 3, 1>>)]>> :
                  sp \in ResampleSpectra}

WavelengthGridChoices == {None, RSeq(<<1259, 1261, 1263>>)}

RefWavelengthChoices == {None, R(1262)}

\* wavelength, vel?, flux, f_unc = combine_spectra(...)
CombineSpectraCall(spectra, ref_wavelength, wavelength_grid) ==
    /\ ret' = ToolOutcome("combine_spectra",
                  [spectra |-> spectra, ref_wavelength |-> ref_wavelength,
                   wavelength_grid |-> wavelength_grid], 0,
                  combine_spectra(
                      [i \in 1..Len(spectra) |-> spectra[i].wavelength],
                      [i \in 1..Len(spectra) |-> spectra[i].flux],
                      [i \in 1..Len(spectra) |-> spectra[i].uncertainty],
                      ref_wavelength, wavelength_grid))
    /\ UNCHANGED <<splitdir, visit, errVars, toolVars, callerVars>>

DopplerArgs(velocity, ref_wl, wavelength, flux, uncertainty) ==
    [velocity |-> velocity, ref_wl |-> ref_wl, wavelength |-> wavelength,
     flux |-> flux, uncertainty |-> uncertainty]

\* new_flux, new_uncertainty = doppler_shift(velocity, ref_wl, ...) on a
\* spectrum the caller holds
DopplerShiftCall(velocity, ref_wl, sp) ==
    /\ ret' = ToolOutcome("doppler_shift",
                  DopplerArgs(velocity, ref_wl, sp.wavelength, sp.flux,
                              sp.uncertainty), 0,
                  doppler_shift(velocity, ref_wl, sp.wavelength, sp.flux,
                                sp.uncertainty))
    /\ UNCHANGED <<splitdir, visit, errVars, toolVars, callerVars>>

\* most consecutive times a caller shifts a result back
MaxTrips == 1

\* the caller shifts the spectrum it just got by the opposite velocity
DopplerShiftBack ==
    /\ ret.op = "doppler_shift"
    /\ ret.trips < MaxTrips
    /\ LET a == ret.args
       IN  ret' = ToolOutcome("doppler_shift",
                      DopplerArgs(-a.velocity, a.ref_wl, a.wavelength,
                                  ret.value[1], ret.value[2]),
                      ret.trips + 1,
                      doppler_shift(-a.velocity, a.ref_wl, a.wavelength,
                                    ret.value[1], ret.value[2]))
    /\ UNCHANGED <<splitdir, visit, errVars, toolVars, callerVars>>

\* reference wavelengths: a velocity unit shifts by a whole pixel unit or
\* by half of one
RefWlChoices == {R(1262), R(631)}

NextResample ==
    \/ \E l \in SpectraLists, ref \in RefWavelengthChoices,
          grid \in WavelengthGridChoices : CombineSpectraCall(l, ref, grid)
    \/ \E v \in (-MaxDv)..MaxDv, ref \in RefWlChoices,
          sp \in ResampleSpectra : DopplerShiftCall(v, ref, sp)
    \/ DopplerShiftBack

SpecResample == InitIdle /\ [][NextResample]_vars

----------------------------------------------------------------------------
(* Properties of combine_spectra and doppler_shift, under SpecResample      *)

\* ret records combine_spectra on N >= 1 copies of one spectrum, combined
\* on the grid of the spectra themselves
CombinedIdentical ==
    /\ ret.op = "combine_spectra"
    /\ \A i \in 1..Len(ret.args.spectra) :
           ret.args.spectra[i] = ret.args.spectra[1]
    /\ ret.args.wavelength_grid = None

\* the flux and the uncertainty returned, the last two of the tuple
CombinedFlux == ret.value[Len(ret.value) - 1]

CombinedError == ret.value[Len(ret.value)]

\* C14: combine_spectra on N >= 1 identical spectra (flux f, error e)
\* returns the flux f and the error e / sqrt(N) at every pixel: N times the
\* returned error, squared, is N * e^2.
C14_IdenticalSpectraCombine ==
    CombinedIdentical =>
        LET N == Len(ret.args.spectra)
            f == ret.args.spectra[1].flux
            e == ret.args.spectra[1].uncertainty
        IN  /\ CombinedFlux = f
            /\ Len(CombinedError) = Len(e)
            /\ \A k \in 1..Len(e) :
                   \* (N * sqrt(s) / d)^2 = N^2 * s / d^2
                   RatDiv(RatMul(R(N * N), CombinedError[k].sqrt_of),
                          R(CombinedError[k].over * CombinedError[k].over))
                       = RatMul(R(N), RatMul(e[k], e[k]))

\* three copies of a spectrum were combined
C14_Witness ==
    /\ CombinedIdentical
    /\ Len(ret.args.spectra) = 3
    /\ CombinedFlux = RSeq(<<4, 1, 4>>)

\* the points (x[k], y[k]) lie on one straight line, which linear
\* interpolation and extrapolation reproduce without error
IsLine(x, y) ==
    \A k \in 2..(Len(x) - 1) :
        RatMul(RatSub(y[k + 1], y[k]), RatSub(x[k], x[k - 1]))
            = RatMul(RatSub(y[k], y[k - 1]), RatSub(x[k + 1], x[k]))

\* this step shifts back, by the opposite velocity, the spectrum the
\* previous call of doppler_shift returned
ShiftedBack ==
    /\ ret.op = "doppler_shift" /\ ret'.op = "doppler_shift"
    /\ ret'.trips = ret.trips + 1
    /\ ret'.args.velocity = -ret.args.velocity
    /\ ret'.args.flux = ret.value[1]
    /\ ret'.args.uncertainty = ret.value[2]

\* C15: doppler_shift by v and then by -v gives back the original flux up
\* to the error of the interpolation, on the original wavelength grid: both
\* outputs have the length of the input, and an array that linear
\* interpolation reproduces without error (one lying on a straight line
\* over the grid, or any array when v = 0) comes back exactly.
C15_ShiftRoundTrip ==
    [][ShiftedBack =>
          LET a == ret.args
          IN  /\ Len(ret.value[1]) = Len(a.wavelength)
              /\ Len(ret'.value[1]) = Len(a.wavelength)
              /\ Len(ret'.value[2]) = Len(a.wavelength)
              /\ ret'.args.wavelength = a.wavelength
              /\ (IsLine(a.wavelength, a.flux) \/ a.velocity = 0)
                     => ret'.value[1] = a.flux
              /\ (IsLine(a.wavelength, a.uncertainty) \/ a.velocity = 0)
                     => ret'.value[2] = a.uncertainty]_vars

\* a flux on a straight line was shifted by half a pixel unit and back, and
\* came back as it was
C15_Witness ==
    /\ ret.op = "doppler_shift"
    /\ ret.trips = 1
    /\ ret.args.velocity = -1
    /\ ret.args.ref_wl = R(631)
    /\ ret.args.wavelength = RSeq(<<1260, 1262, 1264>>)
    /\ ret.args.flux # RSeq(<<1, 3, 5>>)
    /\ ret.value[1] = RSeq(<<1, 3, 5>>)

----------------------------------------------------------------------------
(* COSSpectrum.verify_systematic and COSSpectrum.correct_systematic         *)

\* temp_jd_shift, the default 2.45E6; the times kept in _systematics are
\* counted from it, which leaves the fitted values as they are
TempJdShift == 2450000

\* self._systematics = {}
EmptyDict == [filled |-> FALSE, time |-> <<>>, flux |-> <<>>, f_unc |-> <<>>]

\* what a call of a method that changes the spectrum did: the spectrum as
\* the call left it, the exception raised if any, the value returned
MethodOutcome(self, raised, returned) ==
    [self |-> self, raised |-> raised, returned |-> returned]

\* (split.start_JD.jd + split.end_JD.jd) / 2
MidTime(split) ==
    RatDiv(RatAdd(RatSub(split.start_JD, R(TempJdShift)),
                  RatSub(split.end_JD, R(TempJdShift))), R(2))

\* a plausible slip: the sum of the fluxes for their mean
Norm_sum(total_flux) == RatSum(total_flux)

\* np.mean(total_flux)
Norm(total_flux) == RatDiv(RatSum(total_flux), R(Len(total_flux)))

\* verify_systematic from the times of the observation on, calls being
\* what the calls of integrated_flux gave, in the order of the two loops
\* (every split for the first line, then every split for the next)
SystematicsFrom(self, calls, return_norm) ==
    LET n_splits == Len(self.split)
        n_lines  == Len(calls) \div n_splits
        f(l, i)  == calls[(l - 1) * n_splits + i].value
        total_flux == [i \in 1..n_splits |->
                          RatSum([l \in 1..n_lines |-> f(l, i)[1]])]
        total_unc  == [i \in 1..n_splits |->
                          [sqrt_of |-> RatSum([l \in 1..n_lines |->
                                                  f(l, i)[2].sqrt_of])]]
        time     == [i \in 1..n_splits |-> MidTime(self.split[i])]
        failed   == {j \in 1..Len(calls) : calls[j].raised # ""}
        first    == CHOOSE j \in failed : \A k \in failed : j <= k
    IN  IF failed # {}
        THEN MethodOutcome([self EXCEPT !._systematics = EmptyDict],
                           calls[first].raised, None)
        ELSE MethodOutcome(
                 [self EXCEPT !._systematics =
                     [filled |-> TRUE, time |-> time, flux |-> total_flux,
                      f_unc |-> total_unc]],
                 "",
                 IF return_norm THEN Norm(total_flux) ELSE None)

\* verify_systematic(line_list, return_norm=..., rv_range=...), the lines
\* of line_list given as the sequence of their wavelength ranges; plot
\* draws and changes nothing, norm being the same on both its branches
verify_systematic(self, line_list, return_norm, rv_range) ==
    LET cleared  == [self EXCEPT !._systematics = EmptyDict]
        n_splits == Len(self.split)
    IN  IF self.split_none
        THEN MethodOutcome(cleared, "ValueError", None)
        ELSE IF rv_range # None
        \* integrated_flux() got an unexpected keyword argument 'rv_range'
        THEN MethodOutcome(cleared, "TypeError", None)
        ELSE CHOOSE o \in
                 {SystematicsFrom(self, calls, return_norm) :
                     calls \in
                         \* f, unc = split.integrated_flux(
                         \*              wavelength_range=wl_range)
                         {[j \in 1..(Len(line_list) * n_splits) |->
                             integrated_flux(
                                 self.split[((j - 1) % n_splits) + 1],
                                 line_list[((j - 1) \div n_splits) + 1],
                                 "quadratic_sum", R(0))]}} : TRUE

\* np.poly1d(np.polyfit(t, y, deg=poly_deg))(t) for poly_deg 0 and 1: the
\* values at t of the least-squares constant or line through the points
PolyFitted(t, y, poly_deg) ==
    LET n    == Len(t)
        tbar == RatDiv(RatSum(t), R(n))
        ybar == RatDiv(RatSum(y), R(n))
        Stt  == RatSum([i \in 1..n |-> RatMul(RatSub(t[i], tbar),
                                              RatSub(t[i], tbar))])
        Sty  == RatSum([i \in 1..n |-> RatMul(RatSub(t[i], tbar),
                                              RatSub(y[i], ybar))])
    IN  [i \in 1..n |->
            IF poly_deg = 0 \/ Stt = R(0) THEN ybar
            ELSE RatAdd(ybar, RatMul(RatDiv(Sty, Stt), RatSub(t[i], tbar)))]

\* corr_factor, from the systematics kept in the spectrum
CorrFactor(self, baseline_level, poly_deg) ==
    LET sys == self._systematics
    IN  PolyFitted(sys.time,
                   [i \in 1..Len(sys.flux) |->
                       RatDiv(sys.flux[i], baseline_level)],
                   poly_deg)

\* a plausible slip: the second side is left as it was
DivideSplit_side0(split, factor, recompute_errors) ==
    LET divided == [split EXCEPT !.flux[1] =
                       [p \in 1..Len(split.flux[1]) |->
                           RatDiv(split.flux[1][p], factor)]]
    IN  IF recompute_errors
        THEN compute_proper_error(divided, ShiftNetDefault)
        ELSE divided

\* self.split[i].flux[0] /= corr_factor[i], self.split[i].flux[1] /= ...,
\* then the split's compute_proper_error() if asked for
DivideSplit(split, factor, recompute_errors) ==
    LET divided == [split EXCEPT !.flux =
                       [s \in Sides |-> [p \in 1..Len(split.flux[s]) |->
                           RatDiv(split.flux[s][p], factor)]]]
    IN  IF recompute_errors
        THEN compute_proper_error(divided, ShiftNetDefault)
        ELSE divided

\* sum_split_flux.sum(axis=0) / n_splits on side k
MeanFlux(self, k) ==
    [p \in 1..Len(self.split[1].flux[k]) |->
        RatDiv(RatSum([i \in 1..Len(self.split) |-> self.split[i].flux[k][p]]),
               R(Len(self.split)))]

\* one turn of the loop `for k in range(2)`, on the spectrum with
\* self.flux[k] = mean_flux done: compute_proper_error() if asked for, which
\* needs flux and net alike
AssignedSide(assigned, recompute_errors) ==
    IF ~recompute_errors
    THEN MethodOutcome(assigned, "", None)
    ELSE IF \E s \in Sides : Len(assigned.flux[s]) # Len(assigned.net[s])
    THEN MethodOutcome(assigned, "ValueError", None)
    ELSE MethodOutcome(compute_proper_error(assigned, ShiftNetDefault),
                       "", None)

\* one turn of the loop `for k in range(2)`: self.flux[k] = mean_flux, which
\* a 2-d flux array accepts only for a row of its own length
AssignSide(out, k, recompute_errors) ==
    IF out.raised # "" THEN out
    ELSE IF Is2d(out.self)
            /\ Len(out.self.split[1].flux[k]) # Len(out.self.flux[k])
    THEN MethodOutcome(out.self, "ValueError", None)
    ELSE CHOOSE o \in {AssignedSide(assigned, recompute_errors) :
                          assigned \in {[out.self EXCEPT
                                            !.flux[k] = MeanFlux(out.self, k)]}} :
             TRUE

\* the two loops of correct_systematic, from the correction factors on
CorrectWith(self, corr_factor, recompute_errors) ==
    LET n_splits == Len(self.split)
        reach    == IF n_splits < Len(corr_factor) THEN n_splits
                    ELSE Len(corr_factor)
        \* the splits as the first loop leaves them: corr_factor[i] is an
        \* IndexError past the end of corr_factor
        split    == [i \in 1..n_splits |->
                        IF i <= reach
                        THEN DivideSplit(self.split[i], corr_factor[i],
                                         recompute_errors)
                        ELSE self.split[i]]
    IN  CHOOSE o \in
            {IF reach < n_splits
             THEN MethodOutcome(divided, "IndexError", None)
             ELSE CHOOSE o2 \in
                      {AssignSide(o1, 2, recompute_errors) :
                          o1 \in {AssignSide(MethodOutcome(divided, "", None),
                                             1, recompute_errors)}} : TRUE :
                 divided \in {[self EXCEPT !.split = split]}} : TRUE

\* correct_systematic from `time = self._systematics['time']` on
CorrectVerified(verified, baseline_level, poly_deg, recompute_errors) ==
    IF verified.raised # "" THEN verified
    ELSE IF ~verified.self._systematics.filled
    THEN MethodOutcome(verified.self, "KeyError", None)
    ELSE CHOOSE o \in
             {CorrectWith(verified.self, corr_factor, recompute_errors) :
                 corr_factor \in {CorrFactor(verified.self, baseline_level,
                                             poly_deg)}} : TRUE

\* correct_systematic(line_list, baseline_level, poly_deg=...,
\*                    recompute_errors=...); every stage is worked out once
\* and handed on
correct_systematic(self, line_list, baseline_level, poly_deg, recompute_errors) ==
    CHOOSE o \in
        {CorrectVerified(verified, baseline_level, poly_deg,
                         recompute_errors) :
            verified \in {IF self._systematics = None
                          THEN verify_systematic(self, line_list, FALSE, None)
                          ELSE MethodOutcome(self, "", None)}} : TRUE

\* correct_systematic was not called on the spectrum yet
Uncorrected == cos.op # "correct_systematic"

\* sunburn: norm = cos.verify_systematic(line_list, return_norm=...,
\*                                       rv_range=...)
CosVerifySystematic(line_list, return_norm, rv_range) ==
    \E out \in {verify_systematic(cos.obj, line_list, return_norm, rv_range)} :
        /\ cos' = Called(out.self, "verify_systematic",
                         [line_list |-> line_list,
                          return_norm |-> return_norm,
                          rv_range |-> rv_range,
                          raised |-> out.raised, returned |-> out.returned])
        /\ UNCHANGED <<bcos, toolVars, visitVars, callerVars>>

\* sunburn: cos.correct_systematic(line_list, baseline_level, poly_deg=...,
\*                                 recompute_errors=...)
CosCorrectSystematic(line_list, baseline_level, poly_deg, recompute_errors) ==
    /\ \E out \in {correct_systematic(cos.obj, line_list, baseline_level,
                                      poly_deg, recompute_errors)} :
           cos' = Called(out.self, "correct_systematic",
                         [line_list |-> line_list,
                          baseline_level |-> baseline_level,
                          poly_deg |-> poly_deg,
                          recompute_errors |-> recompute_errors,
                          raised |-> out.raised, returned |-> out.returned])
    /\ UNCHANGED <<bcos, toolVars, visitVars, callerVars>>

\* line lists: one line on the red side, and a line on each side
LineListChoices == {<< <<1263, 1267>> >>,
                    << <<1263, 1267>>, <<1026, 1032>> >>}

RvRangeChoices == {None, <<-1, 1>>}

BaselineChoices == {R(2)}

PolyDegChoices == {0, 1}

\* good_pixel_limits of the spectrum to correct: None, the default, and
\* limits of the caller's that cut two pixels off the red side
SystematicsGplChoices == GplChoices \cup {<<<<2, 5>>, <<0, 5>>>>}

\* a spectrum of dataset ds2 just constructed, nothing split yet
InitSystematics ==
    /\ splitdir = [d \in Datasets |-> 0]
    /\ visit = NoVisit
    /\ ret = Outcome("", "", 0)
    /\ ni = NiIdle /\ ps = PsIdle
    /\ cos \in {Called(COSSpectrum(Name("ds2", 0), gpl, X1dFile("ds2")), "", 0) :
                   gpl \in SystematicsGplChoices}
    /\ bcos = BcosIdle
    /\ velocity_range = <<>>

\* a spectrum is split and verified any number of times and then
\* corrected once; the fluxes a correction leaves are followed no further
NextSystematics ==
    \/ Uncorrected /\ \E n \in 1..MaxSplits : CosTimeTagSplit(n)
    \/ Uncorrected /\ \E l \in LineListChoices, rn \in BOOLEAN,
                          rv \in RvRangeChoices :
          CosVerifySystematic(l, rn, rv)
    \/ Uncorrected /\ \E l \in LineListChoices, b \in BaselineChoices,
                          deg \in PolyDegChoices, re \in BOOLEAN :
          CosCorrectSystematic(l, b, deg, re)

SpecSystematics == InitSystematics /\ [][NextSystematics]_vars

\* the range and method of the calls of integrated_flux and extract_wl
\* made between the calls above
FrameRange == <<1263, 1267>>

\* no other method was called on the spectrum since it was constructed
AsConstructed == cos.op = ""

\* every method of the spectrum that the calls above leave out:
\* compute_proper_error on a spectrum not corrected yet, integrated_flux
\* and extract_wl on the spectrum as constructed
NextFrame ==
    \/ NextSystematics
    \/ Uncorrected /\ CosComputeProperError(ShiftNetDefault)
    \/ AsConstructed /\ CosIntegratedFlux(FrameRange, "quadratic_sum", R(0))
    \/ AsConstructed /\ CosExtractWl(FrameRange)

SpecFrame == InitSystematics /\ [][NextFrame]_vars

----------------------------------------------------------------------------
(* Properties of verify_systematic and correct_systematic, under            *)
(* SpecSystematics                                                          *)

\* the last call on the spectrum was a correct_systematic that returned
Corrected ==
    /\ cos.op = "correct_systematic"
    /\ cos.arg.raised = ""

C17_ParentErrorQuadraticSum ==
    Corrected =>
        LET self == cos.obj
            n    == Len(self.split)
        IN  \A s \in Sides :
                /\ Len(self.error[s]) = Len(self.split[1].error[s])
                /\ \A p \in 1..Len(self.error[s]) :
                       RatMul(R(n * n),
                              RatMul(self.error[s][p], self.error[s][p]))
                           = RatSum([i \in 1..n |->
                                 RatMul(self.split[i].error[s][p],
                                        self.split[i].error[s][p])])

\* correct_systematic returned on a spectrum with two splits
C17_Witness ==
    /\ Corrected
    /\ Len(cos.obj.split) = 2
    /\ ~cos.arg.recompute_errors

\* the last call on the spectrum was a verify_systematic that returned
Verified ==
    /\ cos.op = "verify_systematic"
    /\ cos.arg.raised = ""

\* the mean over the splits of the flux kept in the systematics
MeanSystematicsFlux ==
    RatDiv(RatSum(cos.obj._systematics.flux),
           R(Len(cos.obj._systematics.flux)))

----------------------------------------------------------------------------
(* SpectralLine.__init__                                                    *)

\* most spectra in the list a line is built from
MaxObservations == 2

\* SpectralLine(cos_observation, central_wavelength, doppler_shift_range)
\* on a list of COSSpectrum objects, velocities in the units of LightSpeed:
\* the line built, or the exception raised.  The side and the two indices
\* are worked out on cos_observation[0] and used for every spectrum of the
\* list; slices never fail.  Times are counted from JD 2.45E6.
SpectralLine(cos_observation, central_wavelength, doppler_shift_range) ==
    LET w0       == central_wavelength
        wl_range == VelocityToWavelength(doppler_shift_range, w0)
        first    == cos_observation[1]
        side     == pick_side(first.wavelength, wl_range)
        ind      == side.index + 1
        min_wl   == nearest_index(first.wavelength[ind], wl_range[1])
        max_wl   == nearest_index(first.wavelength[ind], wl_range[2])
        n        == Len(cos_observation)
        wavelength == [k \in 1..n |->
                          Slice(cos_observation[k].wavelength[ind],
                                min_wl, max_wl)]
    IN  IF n = 0
        THEN MethodOutcome(None, "IndexError", None)
        ELSE IF side.raised
        THEN MethodOutcome(None, "ValueError: range not available", None)
        ELSE MethodOutcome(
                 [n_spectra |-> n, w0 |-> w0,
                  ds_range |-> doppler_shift_range, wl_range |-> wl_range,
                  wavelength |-> wavelength,
                  flux |-> [k \in 1..n |->
                               Slice(cos_observation[k].flux[ind],
                                     min_wl, max_wl)],
                  f_unc |-> [k \in 1..n |->
                                Slice(cos_observation[k].error[ind],
                                      min_wl, max_wl)],
                  velocity |-> [k \in 1..n |->
                                   [p \in 1..Len(wavelength[k]) |->
                                       ((wavelength[k][p] - w0) * LightSpeed)
                                           \div w0]],
                  time |-> [k \in 1..n |-> MidTime(cos_observation[k])],
                  start_JD |-> [k \in 1..n |-> cos_observation[k].start_JD],
                  end_JD |-> [k \in 1..n |-> cos_observation[k].end_JD]],
                 "", None)

\* the spectra a caller holds
Observations ==
    {COSSpectrum(Name(d, 0), gpl, X1dFile(d)) :
        d \in Datasets, gpl \in ErrGplChoices}

\* the lists of up to MaxObservations of them
ObservationLists ==
    UNION {[1..n -> Observations] : n \in 0..MaxObservations}

\* Doppler shift ranges around the central wavelength 1262
DsRangeChoices == {<<-1, 3>>, <<1, 5>>, <<-3, 1>>, <<1, 7>>}

\* line = SpectralLine(cos_observation, central_wavelength,
\*                     doppler_shift_range)
SpectralLineNew(cos_observation, central_wavelength, doppler_shift_range) ==
    /\ \E out \in {SpectralLine(cos_observation, central_wavelength,
                                doppler_shift_range)} :
           ret' = [op |-> "SpectralLine", raised |-> out.raised,
                   n_splits |-> 0,
                   args |-> [cos_observation |-> cos_observation,
                             central_wavelength |-> central_wavelength,
                             doppler_shift_range |-> doppler_shift_range],
                   value |-> out.self]
    /\ UNCHANGED <<splitdir, visit, errVars, toolVars, callerVars>>

NextLine ==
    \E l \in ObservationLists, ds \in DsRangeChoices :
        SpectralLineNew(l, LightSpeed, ds)

SpecLine == InitIdle /\ [][NextLine]_vars

----------------------------------------------------------------------------
(* Properties of SpectralLine.__init__, under SpecLine                      *)

\* the wavelength window of the line of the call in ret
LineWindow ==
    VelocityToWavelength(ret.args.doppler_shift_range,
                         ret.args.central_wavelength)

\* the window lies strictly inside one side of the spectrum
WindowInside(spectrum) ==
    \E s \in Sides :
        /\ Len(spectrum.wavelength[s]) > 0
        /\ spectrum.wavelength[s][1] < LineWindow[1]
        /\ LineWindow[2] < spectrum.wavelength[s][Len(spectrum.wavelength[s])]

\* C19: the construction of a SpectralLine succeeds only if the wavelength
\* window of the line lies strictly inside one side of every input
\* spectrum, and it fails with the error of a range that is not covered if
\* the window is not inside one side of some input spectrum.
C19_LineNeedsEverySpectrumCovered ==
    ret.op = "SpectralLine" =>
        LET l == ret.args.cos_observation
        IN  /\ ret.raised = "" => \A k \in 1..Len(l) : WindowInside(l[k])
            /\ (\E k \in 1..Len(l) : ~WindowInside(l[k]))
                   => ret.raised = "ValueError: range not available"

\* a line was built from two spectra, the second of which does not cover
\* the window
C19_Witness ==
    /\ ret.op = "SpectralLine"
    /\ ret.raised = ""
    /\ Len(ret.args.cos_observation) = 2
    /\ WindowInside(ret.args.cos_observation[1])
    /\ ~WindowInside(ret.args.cos_observation[2])

----------------------------------------------------------------------------
(* Properties of the construction of a spectrum, under SpecError            *)

\* the spectrum was constructed with good_pixel_limits=None
BuiltFromNone(self) == self.gpl = EffectiveGpl(GplNone)

\* every array of each side is as long as its column in the x1d file
KeepsAllPixels(self) ==
    LET f == X1dFile(self.dataset_name.root)
    IN  \A s \in Sides :
            /\ Len(self.wavelength[s]) = Len(f.WAVELENGTH[s])
            /\ Len(self.flux[s]) = Len(f.FLUX[s])
            /\ Len(self.error[s]) = Len(f.ERROR[s])
            /\ Len(self.gross_counts[s]) = Len(f.GCOUNTS[s])
            /\ Len(self.background[s]) = Len(f.BACKGROUND[s])
            /\ Len(self.net[s]) = Len(f.NET[s])

\* C20: a spectrum constructed with good_pixel_limits None, in sunburn and
\* in blastoise, is made of all the pixels of each side: every array of a
\* side is as long as its column in the input file, no pixel is dropped.
C20_NoneKeepsAllPixels ==
    /\ BuiltFromNone(cos.obj) => KeepsAllPixels(cos.obj)
    /\ BuiltFromNone(bcos.obj) => KeepsAllPixels(bcos.obj)

\* spectra of dataset ds2 were constructed with good_pixel_limits None,
\* and each side is one pixel short of the file
C20_Witness ==
    /\ BuiltFromNone(cos.obj) /\ cos.obj.dataset_name.root = "ds2"
    /\ BuiltFromNone(bcos.obj) /\ bcos.obj.dataset_name.root = "ds2"
    /\ \A s \in Sides :
           /\ Len(cos.obj.flux[s]) = NFilePix - 1
           /\ Len(bcos.obj.flux[s]) = NFilePix - 1

----------------------------------------------------------------------------
(* Properties of extract_wl, under SpecFlux                                 *)

\* ret records a call of extract_wl that returned an array
Extracted == ret.op = "UVSpectrum.extract_wl" /\ ret.raised = ""

\* the side of the spectrum in ret that pick_side chose for the range in ret
ExtractSide ==
    ret.self.wavelength[pick_side(ret.self.wavelength,
                                  ret.wavelength_range).index + 1]

ExtractMin == nearest_index(ExtractSide, ret.wavelength_range[1])

ExtractMax == nearest_index(ExtractSide, ret.wavelength_range[2])

\* the elements of the side from index ExtractMin to index ExtractMax, both
\* included
InclusiveWindow ==
    [k \in 1..(ExtractMax - ExtractMin + 1) |-> At(ExtractSide, ExtractMin + k - 1)]

\* C21 as stated: for every range accepted by pick_side, extract_wl returns
\* the wavelengths from the lower nearest index to the upper nearest index
\* inclusive, exactly one element more than the flux window integrated_flux
\* uses for the same range.
C21_ExtractOneLonger ==
    Extracted =>
        /\ ret.value = InclusiveWindow
        /\ Len(ret.value) = Len(FluxWindow(ret.self, ret.wavelength_range)) + 1

\* C21 amended: for every range accepted by pick_side, extract_wl returns
\* the wavelengths from the lower nearest index to the upper nearest index
\* inclusive; when the lower bound of the range is not above the upper one
\* this is exactly one element more than the flux window integrated_flux
\* uses for the same range, and for a reversed range whose lower nearest
\* index lies above the upper one both windows are empty.
C21_ExtractOneLongerInOrder ==
    Extracted =>
        /\ ret.value = InclusiveWindow
        /\ (ret.wavelength_range[1] <= ret.wavelength_range[2] =>
               Len(ret.value)
                   = Len(FluxWindow(ret.self, ret.wavelength_range)) + 1)
        /\ (ExtractMin > ExtractMax =>
               /\ ret.value = <<>>
               /\ FluxWindow(ret.self, ret.wavelength_range) = <<>>)

\* extract_wl returned several wavelengths for a range in order
C21_Witness ==
    /\ Extracted
    /\ ret.wavelength_range[1] < ret.wavelength_range[2]
    /\ Len(ret.value) >= 3
    /\ Len(FluxWindow(ret.self, ret.wavelength_range)) = Len(ret.value) - 1

----------------------------------------------------------------------------
(* Properties of the systematics series, under SpecSystematics              *)

\* the last call on the spectrum was a verify_systematic, on a spectrum
\* that holds time-tag splits
VerifyCalledOnSplits ==
    /\ cos.op = "verify_systematic"
    /\ ~cos.obj.split_none

\* the integrated flux and its uncertainty (number under the root) of line
\* l of the line list of the call, in split j
LineFlux(l, j) ==
    integrated_flux(cos.obj.split[j], cos.arg.line_list[l],
                    "quadratic_sum", R(0)).value

\* C22: verify_systematic produces one systematics flux per time split:
\* entry j is the sum over the lines of the list of the integrated flux of
\* the line in split j, with as uncertainty the root of the sum of the
\* squared uncertainties of the lines in split j; and it does so for lines
\* given by their wavelength range and with a velocity range (rv_range)
\* alike, where the call has at least to return with one entry per split.
C22_SystematicsSumPerSplit ==
    VerifyCalledOnSplits =>
        LET sys      == cos.obj._systematics
            n_splits == Len(cos.obj.split)
            n_lines  == Len(cos.arg.line_list)
        IN  /\ cos.arg.raised = ""
            /\ sys.filled
            /\ Len(sys.flux) = n_splits /\ Len(sys.f_unc) = n_splits
            /\ cos.arg.rv_range = None =>
                   \A j \in 1..n_splits :
                       /\ sys.flux[j]
                              = RatSum([l \in 1..n_lines |-> LineFlux(l, j)[1]])
                       /\ sys.f_unc[j].sqrt_of
                              = RatSum([l \in 1..n_lines |->
                                           LineFlux(l, j)[2].sqrt_of])

\* verify_systematic was called with a velocity range on a spectrum with
\* two splits, and failed on the keyword integrated_flux does not have
C22_Witness ==
    /\ VerifyCalledOnSplits
    /\ Len(cos.obj.split) = 2
    /\ cos.arg.rv_range # None
    /\ cos.arg.raised = "TypeError"
    /\ ~cos.obj._systematics.filled

----------------------------------------------------------------------------
(* The arrays of a spectrum, under SpecSystematics                          *)

\* the per-side arrays of a spectrum
SideArraysOf(self) ==
    <<self.wavelength, self.flux, self.error, self.gross_counts,
      self.background, self.net>>

\* on each side, the six arrays of the spectrum have one length
SameLengths(self) ==
    \A s \in Sides : \A a \in 1..6 :
        Len(SideArraysOf(self)[a][s]) = Len(self.wavelength[s])

\* C23: in every reachable state, for the spectrum and every split of it
\* and each side, the wavelength, flux, error, gross counts, background and
\* net arrays of the side have the same length, after time_tag_split,
\* verify_systematic and correct_systematic too.
C23_SideArraysSameLength ==
    /\ SameLengths(cos.obj)
    /\ \A i \in 1..Len(cos.obj.split) : SameLengths(cos.obj.split[i])

\* correct_systematic returned on a spectrum built with limits of the
\* caller's: its red flux has the four pixels of the splits, its red
\* wavelengths the three pixels the spectrum was built with
C23_Witness ==
    /\ Corrected
    /\ cos.obj.gpl = <<<<2, 5>>, <<0, 5>>>>
    /\ Len(cos.obj.flux[1]) = 4
    /\ Len(cos.obj.wavelength[1]) = 3

----------------------------------------------------------------------------
(* What the methods leave alone, under SpecFrame                            *)

\* what a spectrum holds of the measurement besides flux and error
Measured(self) ==
    <<self.wavelength, self.gross_counts, self.background, self.net,
      self.exp_time>>

\* the step calls a method that keeps the splits the spectrum has
KeepsSplits ==
    /\ cos' # cos
    /\ cos'.op \in {"compute_proper_error", "verify_systematic",
                    "correct_systematic"}

\* C24: after construction no method of a spectrum (compute_proper_error,
\* integrated_flux, extract_wl, verify_systematic, correct_systematic,
\* time_tag_split) changes its wavelengths, gross counts, background, net
\* counts or exposure time, and none changes those of the splits it keeps;
\* of the arrays read from the file only error and flux are ever modified.
C24_MeasuredArraysKept ==
    [][/\ Measured(cos'.obj) = Measured(cos.obj)
       /\ KeepsSplits =>
              /\ Len(cos'.obj.split) = Len(cos.obj.split)
              /\ \A i \in 1..Len(cos.obj.split) :
                     Measured(cos'.obj.split[i]) = Measured(cos.obj.split[i])]_vars

\* correct_systematic returned with recompute_errors=True: the flux and
\* the error of the spectrum are new, what was measured is as the file
\* gave it
C24_Witness ==
    /\ Corrected
    /\ cos.arg.recompute_errors
    /\ LET built == COSSpectrum(cos.obj.dataset_name, cos.obj.gpl,
                                X1dFile(cos.obj.dataset_name.root))
       IN  /\ cos.obj.flux # built.flux
           /\ cos.obj.error # built.error
           /\ Measured(cos.obj) = Measured(built)

----------------------------------------------------------------------------
(* Splitting again, under SpecResplit                                       *)

\* the step splits a spectrum that has splits already
Resplits ==
    /\ ~cos.obj.split_none
    /\ cos'.op \in {"time_tag_split", "assign_splits"}
    /\ cos' # cos

\* the number of splits the call of the step is to build: n_splits, or for
\* assign_splits the number of split files in the directory
NewSplitCount ==
    IF cos'.op = "time_tag_split" THEN cos'.arg
    ELSE splitdir[cos.obj.dataset_name.root]

\* the split was built anew from a split file of the directory: it holds
\* the flux and the error of the file, and no sensitivity or proper error
\* of a compute_proper_error called before
NewlyBuilt(split, files) ==
    \E k \in 1..Len(files) :
        LET built == COSSpectrum(Name(cos.obj.dataset_name.root, k),
                                 DefaultGpl, files[k])
        IN  /\ split.dataset_name = built.dataset_name
            /\ split.flux = built.flux
            /\ split.error = built.error
            /\ split.sensitivity = None
            /\ split.split_none

\* C25: splitting again replaces the splits wholesale: after a second
\* time_tag_split or assign_splits on a spectrum that has splits, the split
\* list holds the newly built splits and nothing else: it has as many
\* entries as splits were asked for (or split files found), every one of
\* them newly built.
C25_ResplitReplacesSplits ==
    [][Resplits =>
          /\ Len(cos'.obj.split) = NewSplitCount
          /\ \A i \in 1..Len(cos'.obj.split) :
                 NewlyBuilt(cos'.obj.split[i],
                            DirFiles(cos.obj.dataset_name.root,
                                     NewSplitCount))]_vars

\* the caller kept a copy of three splits with proper errors on the first
\* of them; the spectrum was then split in two, and neither split carries a
\* sensitivity
C25_Witness ==
    /\ ret.op = "copy.deepcopy(cos.split)"
    /\ Len(ret.value) = 3
    /\ \E i \in 1..3 : ret.value[i].sensitivity # None
    /\ cos.op = "time_tag_split"
    /\ Len(cos.obj.split) = 2
    /\ \A i \in 1..2 : cos.obj.split[i].sensitivity = None

----------------------------------------------------------------------------
(* Properties of CombinedSpectra, under SpecCombined                        *)

\* ret records a CombinedSpectra built from a visit of at least one orbit
Combined == ret.op = "CombinedSpectra" /\ Len(ret.order) >= 1

\* C26: a CombinedSpectra built from a visit of N >= 1 spectra has as flux
\* the element-wise mean of the N fluxes, as error sqrt(sum of the N squared
\* errors) / N, and the wavelength grid of the spectrum iterated last;
\* building it leaves the flux and error arrays of every spectrum of the
\* visit as they were.
C26_CombinedMeanAndQuadrature ==
    Combined =>
        LET N     == Len(ret.order)
            o(i)  == ret.before[ret.order[i]]
        IN  /\ ret.raised = ""
            /\ ret.self.wavelength = o(N).wavelength
            /\ \A s \in Sides :
                   /\ Len(ret.self.flux[s]) = Len(o(1).flux[s])
                   /\ Len(ret.self.f_unc[s]) = Len(o(1).error[s])
                   /\ \A p \in 1..Len(o(1).flux[s]) :
                          /\ RatMul(ret.self.flux[s][p], R(N))
                                 = RatSum([i \in 1..N |-> o(i).flux[s][p]])
                          /\ ret.self.f_unc[s][p].over = N
                          /\ ret.self.f_unc[s][p].sqrt_of
                                 = RatSum([i \in 1..N |->
                                      RatMul(o(i).error[s][p],
                                             o(i).error[s][p])])
            /\ \A d \in DOMAIN visit.orbit :
                   /\ visit.orbit[d].flux = ret.before[d].flux
                   /\ visit.orbit[d].error = ret.before[d].error

\* two orbits with different fluxes were combined, ds2 iterated first
C26_Witness ==
    /\ Combined
    /\ ret.order = <<"ds2", "ds1">>
    /\ ret.raised = ""
    /\ ret.before["ds1"].flux # ret.before["ds2"].flux
    /\ ret.before["ds1"].sensitivity # None
    /\ ret.self.flux # ret.before["ds2"].flux

----------------------------------------------------------------------------
(* verify_systematic without splits, under SpecSystematics                  *)

\* the step calls verify_systematic on a spectrum that holds no splits
VerifiesUnsplit ==
    /\ cos.obj.split_none
    /\ cos'.op = "verify_systematic"
    /\ cos' # cos

\* C27: verify_systematic called on a spectrum without split data fails
\* with an error and leaves the spectrum as it was; the systematics it
\* keeps stay unset, so that a later correct_systematic, once splits are
\* assigned, measures the systematics itself and never reads an empty
\* cache.
C27_VerifyUnsplitLeavesState ==
    [][/\ VerifiesUnsplit =>
              /\ cos'.arg.raised = "ValueError"
              /\ cos'.obj = cos.obj
              /\ cos'.obj._systematics = None
       /\ (cos'.op = "correct_systematic" /\ ~cos.obj.split_none) =>
              cos'.arg.raised # "KeyError"]_vars

\* correct_systematic was called on a spectrum with two splits whose
\* systematics are the empty dict a verify_systematic without splits left,
\* and failed on the missing key
C27_Witness ==
    /\ cos.op = "correct_systematic"
    /\ Len(cos.obj.split) = 2
    /\ cos.obj._systematics = EmptyDict
    /\ cos.arg.raised = "KeyError"

----------------------------------------------------------------------------
(* The systematics kept and the splits, under SpecSystematics               *)

\* the spectrum keeps systematics that a verify_systematic measured
HasSystematics ==
    /\ cos.obj._systematics # None
    /\ cos.obj._systematics.filled

\* C28: after any sequence of time_tag_split, verify_systematic and
\* correct_systematic, whenever the spectrum keeps systematics their time
\* and flux series have one entry for every split the spectrum has now, so
\* that correct_systematic applies one correction factor to every split
\* and never a series measured on splits that were replaced since.
C28_SystematicsMatchSplits ==
    HasSystematics =>
        /\ Len(cos.obj._systematics.time) = Len(cos.obj.split)
        /\ Len(cos.obj._systematics.flux) = Len(cos.obj.split)

\* correct_systematic returned on a spectrum with two splits, having
\* corrected them with the first two factors of a series of three that was
\* measured on the three splits the spectrum had before
C28_Witness ==
    /\ Corrected
    /\ Len(cos.obj.split) = 2
    /\ HasSystematics
    /\ Len(cos.obj._systematics.flux) = 3

----------------------------------------------------------------------------
(* AirglowTemplate and ContaminatedLine                                     *)

\* most calls of fit_template on one line
MaxFits == 2

\* AirglowTemplate(wavelength, flux, uncertainties, reference_wavelength)
AirglowTemplate(wavelength, flux, uncertainties, reference_wavelength) ==
    [wavelength |-> wavelength, flux |-> flux, f_unc |-> uncertainties,
     ref_wl |-> reference_wavelength]

\* AirglowTemplate.adjust_spectrum(doppler_shift, scale_flux,
\* fill_value=fill_value): tools.doppler_shift with that fill value, then
\* new_flux *= scale_flux and new_f_unc *= scale_flux; the pair returned
adjust_spectrum(self, velocity, scale_flux, fill_value) ==
    LET shift  == DopplerShiftOf(velocity, self.ref_wl)
        new_wv == [k \in 1..Len(self.wavelength) |->
                      RatAdd(self.wavelength[k], shift)]
        scaled(y) == [k \in 1..Len(y) |-> RatMul(y[k], R(scale_flux))]
    IN  <<scaled(Resample(new_wv, self.flux, FillWith(fill_value),
                          self.wavelength)),
          scaled(Resample(new_wv, self.f_unc, FillWith(fill_value),
                          self.wavelength))>>

\* AirglowTemplate.interpolate_to(wavelength): the pair (new_flux, new_f_unc)
interpolate_to(self, wavelength) ==
    <<Resample(self.wavelength, self.flux, Extrapolate, RSeq(wavelength)),
      Resample(self.wavelength, self.f_unc, Extrapolate, RSeq(wavelength))>>

\* ContaminatedLine(cos_observation, airglow_template, central_wavelength,
\*                  doppler_shift_range): the SpectralLine, the template and
\* the two empty lists
ContaminatedLine(cos_observation, airglow_template, central_wavelength, doppler_shift_range) ==
    LET line == SpectralLine(cos_observation, central_wavelength,
                             doppler_shift_range)
    IN  IF line.raised # "" THEN line
        ELSE MethodOutcome(
                 [n_spectra |-> line.self.n_spectra, w0 |-> line.self.w0,
                  wavelength |-> line.self.wavelength,
                  flux |-> line.self.flux, f_unc |-> line.self.f_unc,
                  velocity |-> line.self.velocity,
                  ag_template |-> airglow_template,
                  clean_flux |-> <<>>, clean_f_unc |-> <<>>],
                 "", None)

\* the best fit of spectrum i: the template adjusted to the shift and the
\* scale of the result, made a template again and interpolated to the
\* wavelengths of the spectrum
BestFit(self, result, i, fill_value) ==
    LET bf == adjust_spectrum(self.ag_template, result.shift,
                              result.scales[i], fill_value)
    IN  interpolate_to(AirglowTemplate(self.ag_template.wavelength,
                                       bf[1], bf[2], self.w0),
                       self.wavelength[i])

\* self.flux[i] - bf_flux and (self.f_unc[i] ** 2 + bf_error ** 2) ** 0.5,
\* the latter as the numbers under the root
CleanOf(self, i, bf) ==
    [flux  |-> [p \in 1..Len(self.flux[i]) |->
                   RatSub(self.flux[i][p], bf[1][p])],
     f_unc |-> [p \in 1..Len(self.f_unc[i]) |->
                   [sqrt_of |-> RatAdd(RatMul(self.f_unc[i][p],
                                              self.f_unc[i][p]),
                                       RatMul(bf[2][p], bf[2][p]))]]]

\* ContaminatedLine.fit_template from the result of the minimisation on:
\* for each spectrum the best fit is worked out and the clean flux and
\* its uncertainty are appended to self.clean_flux and self.clean_f_unc
fit_template(self, result, fill_value) ==
    LET clean == [i \in 1..self.n_spectra |->
                     CleanOf(self, i, BestFit(self, result, i, fill_value))]
    IN  [self EXCEPT
            !.clean_flux = self.clean_flux \o
                               [i \in 1..self.n_spectra |-> clean[i].flux],
            !.clean_f_unc = self.clean_f_unc \o
                               [i \in 1..self.n_spectra |-> clean[i].f_unc]]

\* simps(clean_flux[min_v:max_v], wavelength[min_v:max_v]) and the
\* quadratic sum of delta_wl * clean_f_unc over the same window
IntegrateClean(wavelength, clean_flux, clean_f_unc, min_v, max_v) ==
    LET delta_wl == [k \in 1..(Len(wavelength) - 1) |->
                        wavelength[k + 1] - wavelength[k]]
        dw       == Slice(delta_wl, min_v, max_v)
        unc      == Slice(clean_f_unc, min_v, max_v)
    IN  [int_flux |-> Simps(Slice(clean_flux, min_v, max_v),
                            Slice(wavelength, min_v, max_v)),
         uncertainty |->
             [sqrt_of |-> RatSum([k \in 1..Len(unc) |->
                             RatMul(R(dw[k] * dw[k]), unc[k].sqrt_of)])]]

\* ContaminatedLine.integrated_clean_flux(velocity_range=v_range): the lists
\* (int_flux, uncertainty), entry i from self.clean_flux[i]; an IndexError
\* while the lists are empty
integrated_clean_flux(self, v_range) ==
    LET min_v == nearest_index(self.velocity[1], v_range[1])
        max_v == nearest_index(self.velocity[1], v_range[2])
    IN  IF Len(self.clean_flux) < self.n_spectra
        THEN [raised |-> "IndexError", value |-> None]
        ELSE [raised |-> "",
              value |-> [i \in 1..self.n_spectra |->
                            IntegrateClean(self.wavelength[i],
                                           self.clean_flux[i],
                                           self.clean_f_unc[i],
                                           min_v, max_v)]]

\* the record of a contaminated line in ret: the last method called, the
\* line, the number of fits made, the result of the last fit and what the
\* last integrated_clean_flux returned
LineState(op, raised, self, fits, result, value) ==
    [op |-> op, raised |-> raised, n_splits |-> 0, self |-> self,
     fits |-> fits, result |-> result, value |-> value]

\* line = ContaminatedLine(cos_observation, airglow_template,
\*                         central_wavelength, doppler_shift_range)
ContaminatedLineNew(cos_observation, airglow_template, central_wavelength, doppler_shift_range) ==
    /\ \E out \in {ContaminatedLine(cos_observation, airglow_template,
                                     central_wavelength,
                                     doppler_shift_range)} :
           ret' = LineState("ContaminatedLine", out.raised, out.self, 0,
                            None, None)
    /\ UNCHANGED <<splitdir, visit, errVars, toolVars, callerVars>>

\* the line of ret exists
HasLine ==
    /\ ret.op \in {"ContaminatedLine", "fit_template",
                   "integrated_clean_flux"}
    /\ ret.self # None

\* result = line.fit_template(velocity_range, shift_guess, scales_guess),
\* `result` being what the minimisation ends on
LineFitTemplate(result) ==
    /\ HasLine
    /\ ret.fits < MaxFits
    /\ Len(result.scales) = ret.self.n_spectra
    /\ \E out \in {fit_template(ret.self, result, R(FillValue))} :
           ret' = LineState("fit_template", "", out, ret.fits + 1, result,
                            None)
    /\ UNCHANGED <<splitdir, visit, errVars, toolVars, callerVars>>

\* line.integrated_clean_flux(velocity_range=v_range)
LineIntegratedCleanFlux(v_range) ==
    /\ HasLine
    /\ \E out \in {integrated_clean_flux(ret.self, v_range)} :
           ret' = LineState("integrated_clean_flux", out.raised, ret.self,
                            ret.fits, ret.result, out.value)
    /\ UNCHANGED <<splitdir, visit, errVars, toolVars, callerVars>>

\* the spectra of a contaminated line, with every pixel of the file but the
\* last
LineObservations ==
    {COSSpectrum(Name(d, 0), GplNone, X1dFile(d)) : d \in Datasets}

LineObservationLists ==
    UNION {[1..n -> LineObservations] : n \in 1..MaxObservations}

\* an airglow template on three wavelengths around the line
TemplateChoices ==
    {AirglowTemplate(RSeq(<<1260, 1264, 1268>>), RSeq(<<0, 2, 1>>),
                     RSeq(<<1, 1, 2>>), R(1262))}

\* what the minimisation can end on: a shift and a scale per spectrum
FitResults ==
    {[shift |-> sh, scales |-> sc] :
        sh \in {0, 1}, sc \in UNION {[1..n -> {1, 2}] :
                                        n \in 1..MaxObservations}}

NextContaminated ==
    \/ \E l \in LineObservationLists, t \in TemplateChoices :
          ContaminatedLineNew(l, t, LightSpeed, <<-1, 5>>)
    \/ \E r \in FitResults : LineFitTemplate(r)
    \/ LineIntegratedCleanFlux(<<-1, 5>>)

SpecContaminated == InitIdle /\ [][NextContaminated]_vars

----------------------------------------------------------------------------
(* Properties of ContaminatedLine, under SpecContaminated                   *)

\* fit_template was called on the line of ret at least once
Fitted == HasLine /\ ret.fits >= 1

\* the clean flux and uncertainty of spectrum i after the fit that ended
\* on the result kept in ret
LatestClean(i) ==
    CleanOf(ret.self, i, BestFit(ret.self, ret.result, i, R(FillValue)))

\* C29: after any number (>= 1) of calls of fit_template on a
\* ContaminatedLine of n spectra, clean_flux and clean_f_unc hold n entries
\* each, entry i being what the latest fit left for spectrum i (observed
\* flux minus best-fit template, errors combined in quadrature), so that
\* integrated_clean_flux integrates the latest fit.
C29_CleanFluxIsLatestFit ==
    Fitted =>
        LET n == ret.self.n_spectra
        IN  /\ Len(ret.self.clean_flux) = n
            /\ Len(ret.self.clean_f_unc) = n
            /\ \A i \in 1..n :
                   /\ ret.self.clean_flux[i] = LatestClean(i).flux
                   /\ ret.self.clean_f_unc[i] = LatestClean(i).f_unc
            /\ ret.op = "integrated_clean_flux" =>
                   /\ ret.raised = ""
                   /\ \A i \in 1..n :
                          ret.value[i]
                              = IntegrateClean(
                                    ret.self.wavelength[i],
                                    LatestClean(i).flux, LatestClean(i).f_unc,
                                    nearest_index(ret.self.velocity[1], -1),
                                    nearest_index(ret.self.velocity[1], 5))

\* two fits were made on a line of one spectrum, the second ending on
\* another scale than the first: clean_flux holds two entries, the first
\* of them from the first fit, and integrated_clean_flux has integrated
\* that one
C29_Witness ==
    /\ Fitted
    /\ ret.fits = 2
    /\ ret.self.n_spectra = 1
    /\ Len(ret.self.clean_flux) = 2
    /\ ret.self.clean_flux[1] # LatestClean(1).flux
    /\ ret.self.clean_flux[2] = LatestClean(1).flux
    /\ ret.op = "integrated_clean_flux"
    /\ ret.value[1].int_flux
           # IntegrateClean(ret.self.wavelength[1], LatestClean(1).flux,
                            LatestClean(1).f_unc, 0, 2).int_flux

(***************************************************************************)
(* Properties of the range and the order of nearest_index, under SpecTools *)
(***************************************************************************)

\* the index the same array gives for another target
IndexFor(v) == nearest_index(ni.array, v)

\* the window bounds a range <<lo, hi>> gives on the array of the call
WindowOrdered(lo, hi) == lo <= hi => IndexFor(lo) <= IndexFor(hi)

\* C30: for every ascending array of at least two elements and every target,
\* inside or outside the array's range, nearest_index returns an index in
\* 0..len(A)-1, and it is monotone in the target: a smaller target never gives
\* a larger index, so a range with lo <= hi never gives min_wl > max_wl
C30_NearestIndexInRangeAndMonotone ==
    ni.called =>
        /\ ni.index \in 0..(Len(ni.array) - 1)
        /\ \A v \in Targets :
               /\ v <= ni.target_value => IndexFor(v) <= ni.index
               /\ ni.target_value <= v => ni.index <= IndexFor(v)
        /\ \A lo \in Targets, hi \in Targets : WindowOrdered(lo, hi)

\* a call with a target above the last element of a three-element array with
\* a repeated value, whose index is the last one, while a target below the
\* first element gives index 0
C30_Witness ==
    /\ ni.called
    /\ Len(ni.array) = 3
    /\ ni.array[1] = ni.array[2]
    /\ ni.target_value > ni.array[3]
    /\ ni.index = 2
    /\ IndexFor(ni.array[1] - 1) = 0
====
